---- MODULE Spec2Model ----
(***************************************************************************)
(* Model of the Diplomacy game engine of diplomacy-rest                    *)
(* (src/diplomacy-server-utils.js, class ServerGameData): the phase        *)
(* machine, the order adjudicator (resolve / adjudicate / backup_rule),    *)
(* the retreat resolver and the sanitizer.                                 *)
(***************************************************************************)
EXTENDS Integers, Sequences, FiniteSets, TLC

VARIABLES phase, players, history, err, lastOp, nSpawn, request, nRejected, handlers

vars == <<phase, players, history, err, lastOp, nSpawn, request, nRejected, handlers>>

----------------------------------------------------------------------------
(* Enumerations                                                            *)

\* resolutionStateEnum
Unresolved == "Unresolved"
Guessing == "Guessing"
Resolved == "Resolved"

\* backupRuleType
circle == "circle"
convoy == "convoy"

\* shared.phaseEnum
CountryClaiming == "Country Claiming"
OrderWriting == "Order Writing"
Retreating == "Retreating"
CreatingDisbanding == "Creating/Disbanding"

\* shared.seasonEnum
Spring == "Spring"
Fall == "Fall"

\* shared.unitTypeEnum
Army == "Army"
Fleet == "Fleet"

\* shared.orderResultEnum
unprocessed == "unprocessed"
success == "success"
fail == "fail"
dislodged == "dislodged"

----------------------------------------------------------------------------
(* Sequence helpers (Array.prototype methods used by the code)             *)

Range(s) == {s[k] : k \in DOMAIN s}

includes(s, x) == \E k \in DOMAIN s : s[k] = x

RECURSIVE SeqOfSet(_)
SeqOfSet(S) == IF S = {} THEN <<>> ELSE LET x == CHOOSE y \in S : TRUE IN <<x>> \o SeqOfSet(S \ {x})

\* Array.prototype.filter by a predicate on the element
FilterSeq(s, P(_)) == SelectSeq(s, P)

\* Array.prototype.findIndex, 1-based, 0 for "not found" (-1 in the code)
findIndex(s, P(_)) == IF \E k \in DOMAIN s : P(s[k]) THEN CHOOSE k \in DOMAIN s : P(s[k]) /\ \A j \in 1..(k-1) : ~P(s[j]) ELSE 0

\* Array.prototype.flat on a sequence of sequences
RECURSIVE flat(_)
flat(ss) == IF ss = <<>> THEN <<>> ELSE Head(ss) \o flat(Tail(ss))

\* `let x = v; F(x)`: the value a statement computes, named for what follows
Bind(v, F(_)) == F(v)

----------------------------------------------------------------------------
(* Bounds of the model                                                     *)

\* longest history the phase machine is followed for
MaxHistory == 2

\* most calls of spawn_unit and remove_unit made after the game has started
MaxSpawn == 1

\* calls that raised an error after which a run of requests is followed
\* further
MaxRejected == 0

\* number of times resolve may start over after a backup rule before the
\* run is reported as not terminating (a stack overflow in the code)
MaxRetry == 4

----------------------------------------------------------------------------
(* The map descriptor (mapInfo): a ten-province cut of the standard map.   *)
(* Brest, Picardy and Paris are pairwise adjacent by land; Paris is        *)
(* landlocked; the English Channel is water and touches London, Brest and  *)
(* Picardy; a fleet can sail between Brest and Picardy along the coast.    *)
(* The North Sea is water and, Belgium being cut out, touches London and   *)
(* Picardy, so that an army can be convoyed between the two over either    *)
(* sea.                                                                    *)
(* Burgundy touches Paris, Picardy, Munich and the Ruhr by land, and       *)
(* Munich touches the Ruhr; the three are landlocked. Kiel touches Munich  *)
(* and the Ruhr by land and has a coast, on a sea outside the cut.         *)

Provinces == <<"Lon", "Eng", "Nth", "Bre", "Pic", "Par", "Bur", "Mun", "Ruh", "Kie">>

ProvinceSet == Range(Provinces)

\* province.water
water(p) == p \in {"Eng", "Nth"}

\* province.coasts (ids); every coastal province of this map has one coast
coasts(p) == IF p \in {"Lon", "Bre", "Pic", "Kie"} THEN <<"c">> ELSE <<>>

\* mapInfo.routes
routes == <<
  [p0 |-> "Bre", p1 |-> "Pic", type |-> "land"],
  [p0 |-> "Bre", p1 |-> "Par", type |-> "land"],
  [p0 |-> "Pic", p1 |-> "Par", type |-> "land"],
  [p0 |-> "Par", p1 |-> "Bur", type |-> "land"],
  [p0 |-> "Pic", p1 |-> "Bur", type |-> "land"],
  [p0 |-> "Bur", p1 |-> "Mun", type |-> "land"],
  [p0 |-> "Bur", p1 |-> "Ruh", type |-> "land"],
  [p0 |-> "Mun", p1 |-> "Ruh", type |-> "land"],
  [p0 |-> "Mun", p1 |-> "Kie", type |-> "land"],
  [p0 |-> "Ruh", p1 |-> "Kie", type |-> "land"],
  [p0 |-> "Bre", p1 |-> "Pic", type |-> "sea"],
  [p0 |-> "Eng", p1 |-> "Lon", type |-> "sea"],
  [p0 |-> "Eng", p1 |-> "Bre", type |-> "sea"],
  [p0 |-> "Eng", p1 |-> "Pic", type |-> "sea"],
  [p0 |-> "Nth", p1 |-> "Lon", type |-> "sea"],
  [p0 |-> "Nth", p1 |-> "Pic", type |-> "sea"] >>

\* mapInfo.countries (ids, in file order) and their initial supply centers
Countries == <<"England", "France", "Germany">>

CountrySet == Range(Countries)

\* country.supplyCenters of mapInfo.countries
homeSupplyCenters(c) == CASE c = "England" -> <<"Lon">> [] c = "France" -> <<"Bre", "Par">> [] c = "Germany" -> <<"Kie", "Mun">>

\* the users of the game
Users == <<"alice", "bob">>

UserSet == Range(Users)

\* mapInfo.info.date
StartDate == 1901

\* provinces adjacent to p over a route of one of the given types
adjacent_by(p, types) == {q \in ProvinceSet : \E k \in DOMAIN routes : routes[k].type \in types /\ ((routes[k].p0 = p /\ routes[k].p1 = q) \/ (routes[k].p1 = p /\ routes[k].p0 = q))}

\* GameData.get_adjacencies_ignore_coasts: in the order of the province list
get_adjacencies_ignore_coasts(p) == SelectSeq(Provinces, LAMBDA q : q \in adjacent_by(p, {"land", "sea"}))

\* GameData.get_province_or_err succeeds
province_exists(p) == p \in ProvinceSet

\* GameData.get_supply_centers (ids)
get_supply_centers == {"Lon", "Bre", "Par", "Mun", "Kie"}

----------------------------------------------------------------------------
(* Orders (shared.Order and its subclasses). A field an order type does    *)
(* not have is the empty string.                                           *)

NoOrder == [type |-> "", province |-> "", dest |-> "", coast |-> "", isConvoy |-> FALSE, supporting |-> "", from |-> "", start |-> "", end |-> "", result |-> unprocessed]

HoldOrder(p) == [NoOrder EXCEPT !.type = "hold", !.province = p]

MoveOrder(p, d, c, v) == [NoOrder EXCEPT !.type = "move", !.province = p, !.dest = d, !.coast = c, !.isConvoy = v]

SupportHoldOrder(p, q) == [NoOrder EXCEPT !.type = "support hold", !.province = p, !.supporting = q]

SupportMoveOrder(p, q, f) == [NoOrder EXCEPT !.type = "support move", !.province = p, !.supporting = q, !.from = f]

ConvoyOrder(p, a, b) == [NoOrder EXCEPT !.type = "convoy", !.province = p, !.start = a, !.end = b]

RetreatOrder(p, d, c) == [NoOrder EXCEPT !.type = "retreat", !.province = p, !.dest = d, !.coast = c]

\* shared.CancelOrder
CancelOrder(p) == [NoOrder EXCEPT !.type = "cancel", !.province = p]

\* the arguments of a call: the user who makes it and the order or the
\* country it is made with; NoRequest when they are not recorded
NoRequest == [user |-> "", order |-> NoOrder, country |-> ""]

\* order.id: the order without its result
order_id(o) == [o EXCEPT !.result = unprocessed]

----------------------------------------------------------------------------
(* Reading a state (shared.GameData accessors)                             *)

\* the countries of a nations table (the keys of state.nations), in the order
\* of mapInfo.countries
countries_of(nations) == SelectSeq(Countries, LAMBDA c : c \in DOMAIN nations)

\* all units of a nations table, country by country
all_units(nations) == flat([k \in DOMAIN countries_of(nations) |-> nations[countries_of(nations)[k]].units])

\* GameData.get_unit: is there a unit at p
has_unit(nations, p) == \E c \in DOMAIN nations : \E k \in DOMAIN nations[c].units : nations[c].units[k].province = p

\* GameData.get_unit_owner_id: the first country (in table order) with a unit at p
get_unit_owner_id(nations, p) == countries_of(nations)[findIndex(countries_of(nations), LAMBDA c : \E k \in DOMAIN nations[c].units : nations[c].units[k].province = p)]

\* GameData.get_unit: the first unit found at p
get_unit(nations, p) == LET c == get_unit_owner_id(nations, p) IN nations[c].units[findIndex(nations[c].units, LAMBDA u : u.province = p)]

\* GameData.country_owner
country_owner(pl, c) == IF c \in DOMAIN pl THEN pl[c] ELSE ""

\* GameData.get_unit_owner_player
get_unit_owner_player(nations, pl, p) == IF has_unit(nations, p) THEN country_owner(pl, get_unit_owner_id(nations, p)) ELSE ""

----------------------------------------------------------------------------
(* The adjudicator: the closures of calculate_orders. cx is what they      *)
(* close over and never change: cx.orders the flattened orders (index      *)
(* 1..n for 0..n-1), cx.unit[p] whether get_unit(p) finds a unit and       *)
(* cx.team[p] the result of get_unit_owner_player(p). st is what they      *)
(* mutate: st.rs = resolutionStates, st.res = resolutions, st.dep =        *)
(* dep_list, st.contested = contested; st.overflow is set when the         *)
(* recursion of resolve does not end (st.retries counts the times resolve  *)
(* started over, st.exhausted tells that the count and not a repeated      *)
(* state ended the run; st.stalled notes a backup rule that resolved       *)
(* nothing). Every operator returns the changed st together                *)
(* with its value v.                                                       *)

Ret(st, v) == [st |-> st, v |-> v]

\* same_team as it would be if no two units were ever of one team
never_same_team(cx, a, b) == FALSE

\* ServerGameData.same_team
same_team(cx, a, b) == cx.team[a] = cx.team[b]

\* move_supports_ignore_teams as it would be if it took a support to hold for
\* a support of the move
move_supports_by_hold(move, support) == support.type = "support hold" /\ move.dest = support.supporting /\ move.province = support.from

\* ServerGameData.move_supports_ignore_teams
move_supports_ignore_teams(move, support) == support.type = "support move" /\ move.dest = support.supporting /\ move.province = support.from

\* move_supports as it would be if the support of any team counted
move_supports_of_any_team(cx, move, support) == move_supports_ignore_teams(move, support)

\* ServerGameData.move_supports
move_supports(cx, move, support) == move_supports_ignore_teams(move, support) /\ ~same_team(cx, move.dest, support.province)

\* ServerGameData.hold_supports
hold_supports(province, support) == support.type = "support hold" /\ province = support.supporting

\* all_convoy_routes: the local list `provinces`
convoy_provinces(orders, start, end) == LET cs == SelectSeq(orders, LAMBDA o : o.type = "convoy" /\ o.start = start /\ o.end = end) IN [k \in DOMAIN cs |-> cs[k].province] \o <<end>>

\* all_convoy_routes: the local function `routes`
RECURSIVE convoy_routes_from(_, _, _, _)
convoy_routes_from(provinces, end, from, ignore) ==
  IF from = end THEN << <<>> >>
  ELSE LET filtered == SelectSeq(provinces, LAMBDA q : ~includes(ignore, q))
           adj == get_adjacencies_ignore_coasts(from)
           filtered_adj == SelectSeq(adj, LAMBDA q : includes(filtered, q))
           sub(q) == LET rs == convoy_routes_from(provinces, end, q, Append(ignore, q)) IN [k \in DOMAIN rs |-> IF q = end THEN rs[k] ELSE <<q>> \o rs[k]]
       IN IF Len(filtered) = 0 THEN <<>> ELSE flat([k \in DOMAIN filtered_adj |-> sub(filtered_adj[k])])

\* ServerGameData.all_convoy_routes: routes as lists of order indices
all_convoy_routes(orders, start, end) ==
  LET provinces == convoy_provinces(orders, start, end)
      found == SelectSeq(convoy_routes_from(provinces, end, start, <<>>), LAMBDA r : Len(r) > 0)
  IN [k \in DOMAIN found |-> [j \in DOMAIN found[k] |-> findIndex(orders, LAMBDA o : o.province = found[k][j])]]

\* backup_rule_type as it would be if every cycle were taken for a convoy
\* paradox
backup_rule_type_convoy(cx, st, dep_start_index) == convoy

\* backup_rule_type
backup_rule_type(cx, st, dep_start_index) ==
  IF \E k \in (dep_start_index + 1)..Len(st.dep) : cx.orders[st.dep[k]].type = "move" /\ \E j \in DOMAIN cx.orders : cx.orders[j].type = "convoy" /\ cx.orders[j].province = cx.orders[st.dep[k]].dest
  THEN convoy ELSE circle

\* backup_rule as it would be if a convoy paradox let the convoy succeed
backup_rule_state_convoy_succeeds(cx, type, i) ==
  IF type = convoy /\ (cx.orders[i].type = "convoy" \/ (cx.orders[i].type = "move" /\ cx.orders[i].isConvoy)) THEN <<Resolved, TRUE>>
  ELSE IF type = circle /\ cx.orders[i].type = "move" THEN <<Resolved, TRUE>>
  ELSE <<Unresolved, FALSE>>

\* backup_rule as it would be if it resolved no order of the cycle
backup_rule_state_unresolved(cx, type, i) == <<Unresolved, FALSE>>

\* backup_rule: what it makes of order i, a member of the cycle
backup_rule_state(cx, type, i) ==
  IF type = convoy /\ (cx.orders[i].type = "convoy" \/ (cx.orders[i].type = "move" /\ cx.orders[i].isConvoy)) THEN <<Resolved, FALSE>>
  ELSE IF type = circle /\ cx.orders[i].type = "move" THEN <<Resolved, TRUE>>
  ELSE <<Unresolved, FALSE>>

\* backup_rule
backup_rule(cx, st, dep_start_index) ==
  LET type == backup_rule_type(cx, st, dep_start_index)
      cycle == {st.dep[k] : k \in (dep_start_index + 1)..Len(st.dep)}
  IN [st EXCEPT !.rs = [i \in DOMAIN st.rs |-> IF i \in cycle THEN backup_rule_state(cx, type, i)[1] ELSE st.rs[i]],
                !.res = [i \in DOMAIN st.res |-> IF i \in cycle /\ backup_rule_state(cx, type, i)[1] = Resolved THEN backup_rule_state(cx, type, i)[2] ELSE st.res[i]],
                !.dep = SubSeq(st.dep, 1, dep_start_index)]

\* resolve: "Set all dependencies to unresolved" (dep_list keeps its length)
reset_dependencies(st, old_dep_size) == [st EXCEPT !.rs = [i \in DOMAIN st.rs |-> IF \E k \in (old_dep_size + 1)..Len(st.dep) : st.dep[k] = i THEN Unresolved ELSE st.rs[i]]]

\* resolve(i) started over from st2 does what it did from st1: the two differ
\* at most in resolutions of Unresolved orders, which resolve overwrites, and
\* in `contested`, which no branch reads. The recursion then never ends.
same_work(st1, st2) == st1.rs = st2.rs /\ st1.dep = st2.dep /\ \A i \in DOMAIN st1.rs : st1.rs[i] # Unresolved => st1.res[i] = st2.res[i]

\* the number of orders that are not Resolved
pending(st) == Cardinality({i \in DOMAIN st.rs : st.rs[i] # Resolved})

\* the state b a backup rule left, with the note whether it left as many
\* orders not Resolved as there were in st, where the enclosing resolve began
measured(st, b) == [b EXCEPT !.stalled = @ \/ pending(b) >= pending(st)]

\* the members of the slice of the dependency stack above dep_start_index
slice(st, dep_start_index) == {st.dep[k] : k \in (dep_start_index + 1)..Len(st.dep)}

\* the slice holds a convoyed Move and a Convoy order for it
convoyed_in_slice(cx, st, dep_start_index) ==
  \E i, j \in slice(st, dep_start_index) :
    /\ cx.orders[i].type = "move" /\ cx.orders[i].isConvoy
    /\ cx.orders[j].type = "convoy" /\ cx.orders[j].start = cx.orders[i].province /\ cx.orders[j].end = cx.orders[i].dest

\* the slice holds a Convoy order and a Move into the province of its fleet
convoy_attacked_in_slice(cx, st, dep_start_index) ==
  \E i, j \in slice(st, dep_start_index) :
    /\ cx.orders[i].type = "move" /\ cx.orders[j].type = "convoy"
    /\ cx.orders[i].dest = cx.orders[j].province

\* the state b is the state a with the slice settled by the rule of the type:
\* the Convoy orders and convoyed Moves of a convoy paradox failed, the Moves
\* of a circular movement succeeded, the other members Unresolved, the stack
\* cut to dep_start_index and nothing else touched
framed(cx, a, dep_start_index, b, type) ==
  LET members == slice(a, dep_start_index)
      settled == {i \in members : IF type = convoy THEN cx.orders[i].type = "convoy" \/ (cx.orders[i].type = "move" /\ cx.orders[i].isConvoy)
                                                   ELSE cx.orders[i].type = "move"}
  IN /\ \A i \in settled : b.rs[i] = Resolved /\ b.res[i] = (type = circle)
     /\ \A i \in members \ settled : b.rs[i] = Unresolved
     /\ b.dep = SubSeq(a.dep, 1, dep_start_index)
     /\ \A i \in DOMAIN a.rs \ members : b.rs[i] = a.rs[i] /\ b.res[i] = a.res[i]

\* the state b a backup rule left of the state a, with the notes of the
\* type it applied, of whether it settled the slice as its type says, of whether the type is convoy without a Convoy order
\* under attack in the slice (or circle with one), and of whether it is
\* convoy without a convoyed Move and its Convoy order in the slice (or
\* circle with them)
noted(cx, a, dep_start_index, b) ==
  LET type == backup_rule_type(cx, a, dep_start_index)
  IN [b EXCEPT !.applied = @ \cup {type},
               !.unframed = @ \/ ~framed(cx, a, dep_start_index, b, type),
               !.misfiled = @ \/ ((type = convoy) # convoy_attacked_in_slice(cx, a, dep_start_index)),
               !.unconvoyed = @ \/ ((type = convoy) # convoyed_in_slice(cx, a, dep_start_index))]

\* what a call of resolve that found the order Unresolved returns, with the
\* note of whether it marked the order Resolved and left the stack longer
\* than old_dep_size, or an order it pushed other than Unresolved
returned(old_dep_size, orderIndex, r) ==
  LET left == \/ Len(r.st.dep) # old_dep_size
              \/ \E k \in (old_dep_size + 1)..Len(r.st.dep) : r.st.dep[k] # orderIndex /\ r.st.rs[r.st.dep[k]] # Unresolved
  IN [r EXCEPT !.st.settled = @ \/ (~r.st.overflow /\ r.st.rs[orderIndex] = Resolved),
               !.st.leftover = @ \/ (~r.st.overflow /\ r.st.rs[orderIndex] = Resolved /\ left)]

\* The closures call one another through resolve.
RECURSIVE resolve(_, _, _)

\* orders.filter((o, i) => match(o) && resolve(i)).length, from index k on;
\* matching[i] is match(orders[i])
RECURSIVE count_resolved(_, _, _, _)
count_resolved(cx, st, matching, k) ==
  IF k > Len(cx.orders) THEN Ret(st, 0)
  ELSE IF matching[k]
       THEN LET r == resolve(cx, st, k)
                rest == count_resolved(cx, r.st, matching, k + 1)
            IN Ret(rest.st, rest.v + (IF r.v THEN 1 ELSE 0))
       ELSE count_resolved(cx, st, matching, k + 1)

\* adjudicate: the local function `strength`
strength(cx, st, ord) == count_resolved(cx, st, [k \in DOMAIN cx.orders |-> move_supports(cx, ord, cx.orders[k])], 1)

\* adjudicate: the local function `strength_ignore_teams`
strength_ignore_teams(cx, st, ord) == count_resolved(cx, st, [k \in DOMAIN cx.orders |-> move_supports_ignore_teams(ord, cx.orders[k])], 1)

\* adjudicate: the local function `def_strength`
def_strength(cx, st, p) == count_resolved(cx, st, [k \in DOMAIN cx.orders |-> hold_supports(p, cx.orders[k])], 1)

\* any_convoy_route: the inner loop over one route, from position k on
RECURSIVE route_works(_, _, _, _)
route_works(cx, st, route, k) ==
  IF k > Len(route) THEN Ret(st, TRUE)
  ELSE LET r == resolve(cx, st, route[k])
       IN IF r.v THEN route_works(cx, r.st, route, k + 1) ELSE Ret(r.st, FALSE)

\* any_convoy_route: the outer loop over the routes, from position k on
RECURSIVE first_working_route(_, _, _, _)
first_working_route(cx, st, rts, k) ==
  IF k > Len(rts) THEN Ret(st, FALSE)
  ELSE LET r == route_works(cx, st, rts[k], 1)
       IN IF r.v THEN Ret(r.st, TRUE) ELSE first_working_route(cx, r.st, rts, k + 1)

\* any_convoy_route as it would be if it gave up after the first route
any_convoy_route_first_only(cx, st, order) ==
  IF order.isConvoy THEN first_working_route(cx, st, SelectSeq(all_convoy_routes(cx.orders, order.province, order.dest), LAMBDA r : r = all_convoy_routes(cx.orders, order.province, order.dest)[1]), 1)
  ELSE Ret(st, TRUE)

\* any_convoy_route
any_convoy_route(cx, st, order) ==
  IF order.isConvoy THEN first_working_route(cx, st, all_convoy_routes(cx.orders, order.province, order.dest), 1)
  ELSE Ret(st, TRUE)

\* adjudicate, support case: v is TRUE when the loop returns false (cut)
RECURSIVE support_is_cut(_, _, _, _)
support_is_cut(cx, st, order, k) ==
  IF k > Len(cx.orders) THEN Ret(st, FALSE)
  ELSE LET o == cx.orders[k]
       IN IF o.type = "move" /\ o.dest = order.province /\ ~same_team(cx, o.province, order.province)
          THEN Bind(IF o.province # order.supporting THEN Ret(st, TRUE) ELSE resolve(cx, st, k), LAMBDA r1 :
               IF ~r1.v THEN support_is_cut(cx, r1.st, order, k + 1)
               ELSE Bind(any_convoy_route(cx, r1.st, o), LAMBDA r2 :
                    IF r2.v THEN Ret(r2.st, TRUE) ELSE support_is_cut(cx, r2.st, order, k + 1)))
          ELSE support_is_cut(cx, st, order, k + 1)

\* the convoy case as it would be if any move against the fleet disrupted
\* the convoy
convoy_is_disrupted_by_any_move(cx, st, order, k) == Ret(st, \E j \in DOMAIN cx.orders : cx.orders[j].type = "move" /\ cx.orders[j].dest = order.province)

\* adjudicate, convoy case: v is TRUE when the loop returns false
RECURSIVE convoy_is_disrupted(_, _, _, _)
convoy_is_disrupted(cx, st, order, k) ==
  IF k > Len(cx.orders) THEN Ret(st, FALSE)
  ELSE LET o == cx.orders[k]
       IN IF o.type = "move" /\ o.dest = order.province /\ ~same_team(cx, o.province, order.province)
          THEN LET r == resolve(cx, st, k)
               IN IF r.v THEN Ret(r.st, TRUE) ELSE convoy_is_disrupted(cx, r.st, order, k + 1)
          ELSE convoy_is_disrupted(cx, st, order, k + 1)

\* adjudicate, move case: orders.find(... && resolve(i)) for successful_hth_order
RECURSIVE find_successful_hth(_, _, _, _)
find_successful_hth(cx, st, attack, k) ==
  IF k > Len(cx.orders) THEN Ret(st, FALSE)
  ELSE LET o == cx.orders[k]
       IN IF o.type = "move" /\ o.province = attack.dest /\ o.dest = attack.province /\ ~o.isConvoy /\ ~attack.isConvoy
          THEN LET r == resolve(cx, st, k)
               IN IF r.v THEN Ret(r.st, TRUE) ELSE find_successful_hth(cx, r.st, attack, k + 1)
          ELSE find_successful_hth(cx, st, attack, k + 1)

\* adjudicate, move case: prevent_strength of one of the other attacks
prevent_strength(cx, st, attack) ==
  Bind(find_successful_hth(cx, st, attack, 1), LAMBDA successful_hth_order :
  IF successful_hth_order.v THEN Ret(successful_hth_order.st, 0)
  ELSE Bind(any_convoy_route(cx, successful_hth_order.st, attack), LAMBDA route :
       IF ~route.v THEN Ret(route.st, 0)
       ELSE Bind(strength_ignore_teams(cx, route.st, attack), LAMBDA s : Ret(s.st, 1 + s.v))))

\* adjudicate, move case: the loop over other_attacks; v is TRUE when some
\* prevent strength is >= attack_strength
RECURSIVE prevented(_, _, _, _, _)
prevented(cx, st, other_attacks, attack_strength, k) ==
  IF k > Len(other_attacks) THEN Ret(st, FALSE)
  ELSE Bind(prevent_strength(cx, st, other_attacks[k]), LAMBDA p :
       IF p.v >= attack_strength THEN Ret(p.st, TRUE)
       ELSE prevented(cx, p.st, other_attacks, attack_strength, k + 1))

\* adjudicate, move case: hold_strength
hold_strength(cx, st, order, holding_unit, hmo) ==
  Bind(IF holding_unit /\ hmo # 0 THEN resolve(cx, st, hmo) ELSE Ret(st, FALSE), LAMBDA moves :
  IF ~holding_unit \/ moves.v THEN Ret(moves.st, 0)
  ELSE IF hmo # 0 THEN Ret(moves.st, 1)
  ELSE Bind(def_strength(cx, moves.st, order.dest), LAMBDA d : Ret(d.st, 1 + d.v)))

\* adjudicate, move case: attack_strength
attack_strength(cx, st, order, holding_unit, hmo, is_hth_battle) ==
  Bind(IF holding_unit /\ ~is_hth_battle /\ hmo # 0 THEN resolve(cx, st, hmo) ELSE Ret(st, FALSE), LAMBDA moves :
  IF ~holding_unit \/ moves.v
  THEN Bind(strength_ignore_teams(cx, moves.st, order), LAMBDA x : Ret(x.st, 1 + x.v))
  ELSE Bind(IF same_team(cx, order.province, order.dest) /\ hmo # 0 THEN resolve(cx, moves.st, hmo) ELSE Ret(moves.st, FALSE), LAMBDA again :
       IF same_team(cx, order.province, order.dest) /\ ~again.v THEN Ret(again.st, 0)
       ELSE Bind(strength(cx, again.st, order), LAMBDA x : Ret(x.st, 1 + x.v))))

\* the move case as it would be if no battle were taken for head to head
adjudicate_move_never_head_to_head(cx, st, orderIndex) ==
  LET order == cx.orders[orderIndex]
      holding_unit == cx.unit[order.dest]
      holding_unit_move_order == findIndex(cx.orders, LAMBDA o : o.type = "move" /\ o.province = order.dest)
      hmo == holding_unit_move_order
      is_hth_battle == FALSE
      other_attacks == SelectSeq([k \in DOMAIN cx.orders |-> [o |-> cx.orders[k], i |-> k]], LAMBDA e : e.i # orderIndex /\ e.o.type = "move" /\ e.o.dest = order.dest)
  IN Bind(any_convoy_route(cx, st, order), LAMBDA route :
     IF ~route.v THEN Ret(route.st, FALSE)
     ELSE Bind(hold_strength(cx, [route.st EXCEPT !.contested = IF includes(@, order.dest) THEN @ ELSE Append(@, order.dest)], order, holding_unit, hmo), LAMBDA hold :
          Bind(attack_strength(cx, hold.st, order, holding_unit, hmo, is_hth_battle), LAMBDA attack :
          Bind(IF is_hth_battle THEN strength_ignore_teams(cx, attack.st, cx.orders[hmo]) ELSE Ret(attack.st, 0), LAMBDA d :
          IF is_hth_battle /\ 1 + d.v >= attack.v THEN Ret(d.st, FALSE)
          ELSE IF ~is_hth_battle /\ hold.v >= attack.v THEN Ret(d.st, FALSE)
          ELSE Bind(prevented(cx, d.st, [k \in DOMAIN other_attacks |-> other_attacks[k].o], attack.v, 1), LAMBDA p : Ret(p.st, ~p.v))))))

\* adjudicate, move case
adjudicate_move(cx, st, orderIndex) ==
  LET order == cx.orders[orderIndex]
      holding_unit == cx.unit[order.dest]
      holding_unit_move_order == findIndex(cx.orders, LAMBDA o : o.type = "move" /\ o.province = order.dest)
      hmo == holding_unit_move_order
      is_hth_battle == hmo # 0 /\ ~order.isConvoy /\ ~cx.orders[hmo].isConvoy /\ cx.orders[hmo].dest = order.province
      other_attacks == SelectSeq([k \in DOMAIN cx.orders |-> [o |-> cx.orders[k], i |-> k]], LAMBDA e : e.i # orderIndex /\ e.o.type = "move" /\ e.o.dest = order.dest)
  IN Bind(any_convoy_route(cx, st, order), LAMBDA route :
     IF ~route.v THEN Ret(route.st, FALSE)
     ELSE Bind(hold_strength(cx, [route.st EXCEPT !.contested = IF includes(@, order.dest) THEN @ ELSE Append(@, order.dest)], order, holding_unit, hmo), LAMBDA hold :
          Bind(attack_strength(cx, hold.st, order, holding_unit, hmo, is_hth_battle), LAMBDA attack :
          Bind(IF is_hth_battle THEN strength_ignore_teams(cx, attack.st, cx.orders[hmo]) ELSE Ret(attack.st, 0), LAMBDA d :
          IF is_hth_battle /\ 1 + d.v >= attack.v THEN Ret(d.st, FALSE)
          ELSE IF ~is_hth_battle /\ hold.v >= attack.v THEN Ret(d.st, FALSE)
          ELSE Bind(prevented(cx, d.st, [k \in DOMAIN other_attacks |-> other_attacks[k].o], attack.v, 1), LAMBDA p : Ret(p.st, ~p.v))))))

\* adjudicate
adjudicate(cx, st, orderIndex) ==
  LET order == cx.orders[orderIndex]
  IN CASE order.type = "hold" -> Ret(st, TRUE)
       [] order.type \in {"support hold", "support move"} -> Bind(support_is_cut(cx, st, order, 1), LAMBDA r : Ret(r.st, ~r.v))
       [] order.type = "move" -> adjudicate_move(cx, st, orderIndex)
       [] order.type = "convoy" -> Bind(convoy_is_disrupted(cx, st, order, 1), LAMBDA r : Ret(r.st, ~r.v))

\* resolve; adj_res and adj_res_2 are what adjudicate returned, with the
\* closures' variables as it left them, for the guesses false and true
resolve(cx, st, orderIndex) ==
  CASE st.overflow -> Ret(st, FALSE)
    [] ~st.overflow /\ st.rs[orderIndex] = Resolved -> Ret(st, st.res[orderIndex])
    [] ~st.overflow /\ st.rs[orderIndex] = Guessing -> Ret([st EXCEPT !.dep = Append(@, orderIndex)], st.res[orderIndex])
    [] OTHER ->
       LET old_dep_size == Len(st.dep)
       IN returned(old_dep_size, orderIndex,
          Bind(adjudicate(cx, [st EXCEPT !.res[orderIndex] = FALSE, !.rs[orderIndex] = Guessing], orderIndex), LAMBDA adj_res :
          IF adj_res.st.overflow THEN Ret(adj_res.st, FALSE)
          ELSE IF old_dep_size = Len(adj_res.st.dep) THEN Ret([adj_res.st EXCEPT !.rs[orderIndex] = Resolved, !.res[orderIndex] = adj_res.v], adj_res.v)
          ELSE IF adj_res.st.dep[old_dep_size + 1] # orderIndex THEN Ret([adj_res.st EXCEPT !.dep = Append(@, orderIndex), !.res[orderIndex] = adj_res.v], adj_res.v)
          ELSE Bind(adjudicate(cx, [reset_dependencies(adj_res.st, old_dep_size) EXCEPT !.res[orderIndex] = TRUE, !.rs[orderIndex] = Guessing], orderIndex), LAMBDA adj_res_2 :
               IF adj_res_2.st.overflow THEN Ret(adj_res_2.st, FALSE)
               ELSE IF adj_res.v = adj_res_2.v THEN Ret([reset_dependencies(adj_res_2.st, old_dep_size) EXCEPT !.res[orderIndex] = adj_res.v, !.rs[orderIndex] = Resolved], adj_res.v)
               ELSE Bind(measured(st, noted(cx, adj_res_2.st, old_dep_size, backup_rule(cx, adj_res_2.st, old_dep_size))), LAMBDA b :
                    IF same_work(st, b) THEN Ret([b EXCEPT !.overflow = TRUE], FALSE)
                    ELSE IF b.retries >= Len(cx.orders) + MaxRetry THEN Ret([b EXCEPT !.overflow = TRUE, !.exhausted = TRUE], FALSE)
                    ELSE resolve(cx, [b EXCEPT !.retries = @ + 1], orderIndex)))))

\* the closures' variables as calculate_orders initializes them
\* the arrays as they would be if the order with the first index began
\* Resolved as a success
initial_resolution_first_succeeds(n) == [rs |-> [i \in 1..n |-> IF i = 1 THEN Resolved ELSE Unresolved], res |-> [i \in 1..n |-> i = 1], dep |-> <<>>, contested |-> <<>>, overflow |-> FALSE, exhausted |-> FALSE, retries |-> 0, stalled |-> FALSE, applied |-> {}, misfiled |-> FALSE, unconvoyed |-> FALSE, unframed |-> FALSE, settled |-> FALSE, leftover |-> FALSE, guessed |-> {}]

initial_resolution(n) == [rs |-> [i \in 1..n |-> Unresolved], res |-> [i \in 1..n |-> FALSE], dep |-> <<>>, contested |-> <<>>, overflow |-> FALSE, exhausted |-> FALSE, retries |-> 0, stalled |-> FALSE, applied |-> {}, misfiled |-> FALSE, unconvoyed |-> FALSE, unframed |-> FALSE, settled |-> FALSE, leftover |-> FALSE, guessed |-> {}]

\* calculate_orders: the main loop `for (let i = 0; ...) resolve(i)`; returns
\* the final st and, in v, the value resolve(i) returned for each i
RECURSIVE resolve_all(_, _, _, _)
resolve_all(cx, st, i, acc) ==
  IF i > Len(cx.orders) THEN Ret(st, acc)
  ELSE Bind(resolve(cx, st, i), LAMBDA r : IF r.st.overflow THEN Ret(r.st, acc) ELSE resolve_all(cx, [r.st EXCEPT !.guessed = @ \cup (IF r.st.rs[i] = Resolved THEN {} ELSE {i})], i + 1, Append(acc, r.v)))

----------------------------------------------------------------------------
(* Order validity (shared.GameData.get_valid_orders and                    *)
(* get_valid_retreats, section 4.C of the specification)                   *)

\* the provinces a unit can move to along a route of its own kind
direct_moves(unit) == IF unit.type = Army THEN {q \in adjacent_by(unit.province, {"land"}) : ~water(q)} ELSE adjacent_by(unit.province, {"sea"})

\* sea provinces holding a fleet, reachable from p over such provinces
RECURSIVE fleet_chain(_, _)
fleet_chain(nations, reached) ==
  LET more == {q \in ProvinceSet : water(q) /\ has_unit(nations, q) /\ get_unit(nations, q).type = Fleet /\ \E r \in reached : q \in adjacent_by(r, {"land", "sea"})}
  IN IF more \subseteq reached THEN reached ELSE fleet_chain(nations, reached \cup more)

\* the provinces an army can reach over a potential convoy path
convoy_moves(nations, unit) ==
  IF unit.type # Army \/ coasts(unit.province) = <<>> THEN {}
  ELSE LET seas == fleet_chain(nations, {unit.province}) \ {unit.province}
       IN {q \in ProvinceSet \ {unit.province} : ~water(q) /\ coasts(q) # <<>> /\ \E r \in seas : q \in adjacent_by(r, {"land", "sea"})}

\* the coast a unit arriving at q stands on
arrival_coast(unit, q) == IF unit.type = Fleet /\ Len(coasts(q)) = 1 THEN coasts(q)[1] ELSE ""

\* GameData.get_valid_orders
get_valid_orders(nations, unit) ==
  LET p == unit.province
      others == {q \in ProvinceSet \ {p} : has_unit(nations, q)}
  IN {HoldOrder(p)}
     \cup {MoveOrder(p, q, arrival_coast(unit, q), FALSE) : q \in direct_moves(unit)}
     \cup {MoveOrder(p, q, "", TRUE) : q \in convoy_moves(nations, unit)}
     \cup {SupportHoldOrder(p, q) : q \in direct_moves(unit)}
     \cup {SupportMoveOrder(p, q, f) : <<q, f>> \in {x \in direct_moves(unit) \X others : x[1] # x[2] /\ x[1] \in direct_moves(get_unit(nations, x[2])) \cup convoy_moves(nations, get_unit(nations, x[2]))}}
     \cup {ConvoyOrder(p, a, b) : <<a, b>> \in {x \in adjacent_by(p, {"land", "sea"}) \X adjacent_by(p, {"land", "sea"}) : unit.type = Fleet /\ water(p) /\ x[1] # x[2] /\ coasts(x[1]) # <<>> /\ coasts(x[2]) # <<>>}}

\* GameData.get_valid_retreats
get_valid_retreats(prev, nations, dislodgement) ==
  {RetreatOrder(dislodgement.unit.province, q, arrival_coast(dislodgement.unit, q)) :
     q \in {r \in direct_moves(dislodgement.unit) : ~has_unit(nations, r) /\ ~includes(prev.contested, r) /\ r # dislodgement.from}}

----------------------------------------------------------------------------
(* The game (ServerGameData). A game g is [phase, players, history]; a     *)
(* State of the history carries in `keys` the names of the optional        *)
(* properties (orders, retreats, dislodgements, adjustments, contested)    *)
(* that have been assigned to it; one never assigned is the empty          *)
(* function. An operation returns the game it leaves and whether it threw. *)

State(date, season, nations) == [date |-> date, season |-> season, nations |-> nations, keys |-> {}, orders |-> <<>>, retreats |-> <<>>, dislodgements |-> <<>>, adjustments |-> <<>>, contested |-> <<>>]

Ok(g) == [g |-> g, err |-> FALSE]

Throw(g) == [g |-> g, err |-> TRUE]

\* GameData.state: the last entry of the history
cur(g) == g.history[Len(g.history)]

\* `prev_state`: this.history[this.history.length - 2]
prev(g) == g.history[Len(g.history) - 1]

with_cur(g, s) == [g EXCEPT !.history[Len(g.history)] = s]

with_prev(g, s) == [g EXCEPT !.history[Len(g.history) - 1] = s]

\* obj[k] = v on an object modelled as a function
put(f, k, v) == (k :> v) @@ f

\* delete obj[k]
without(f, k) == [x \in (DOMAIN f) \ {k} |-> f[x]]

\* table[province] = order as it would be if every assignment added an entry
append_order(table, order) == Append(table, order)

\* table[province] = order on a province-keyed object kept in insertion order
put_order(table, order) == IF \E k \in DOMAIN table : table[k].province = order.province THEN [k \in DOMAIN table |-> IF table[k].province = order.province THEN order ELSE table[k]] ELSE Append(table, order)

\* delete table[province]
delete_order(table, province) == SelectSeq(table, LAMBDA o : o.province # province)

\* new_game: the entry of a country in history[0].nations; a country that
\* the player configuration eliminates is neutral (neutralEliminate is set,
\* so that its provinces stay on the map)
new_nation(c, units, eliminated) == [supplyCenters |-> homeSupplyCenters(c), units |-> units, neutral |-> eliminated, toBuild |-> 0]

\* new_game: the keys of data.players, the countries not eliminated
played(nations) == {c \in DOMAIN nations : ~nations[c].neutral}

\* the same, in the order of mapInfo.countries
played_list(nations) == SelectSeq(Countries, LAMBDA c : c \in played(nations))

\* GameData.country_group: the map has no country groups
country_group(pl, country) == IF country \in DOMAIN pl THEN <<country>> ELSE <<>>

\* ServerGameData.start_order_writing
start_order_writing(g) == [with_cur(g, [cur(g) EXCEPT !.orders = [c \in DOMAIN g.players |-> <<>>], !.keys = @ \cup {"orders"}]) EXCEPT !.phase = OrderWriting]

\* claim_country as it would be without the test of the phase
claim_country_any_time(g, username, country) ==
  LET group == country_group(g.players, country)
      claimed == [c \in DOMAIN g.players |-> IF includes(group, c) THEN username ELSE IF g.players[c] = username THEN "" ELSE g.players[c]]
      g1 == [g EXCEPT !.players = claimed]
  IN IF group = <<>> THEN Throw(g)
     ELSE IF \E k \in DOMAIN group : g.players[group[k]] # "" /\ g.players[group[k]] # username THEN Throw(g)
     ELSE IF \E c \in DOMAIN claimed : claimed[c] = "" THEN Ok(g1)
     ELSE Ok(start_order_writing(g1))

\* ServerGameData.claim_country
claim_country(g, username, country) ==
  LET group == country_group(g.players, country)
      claimed == [c \in DOMAIN g.players |-> IF includes(group, c) THEN username ELSE IF g.players[c] = username THEN "" ELSE g.players[c]]
      g1 == [g EXCEPT !.players = claimed]
  IN IF g.phase # CountryClaiming THEN Throw(g)
     ELSE IF group = <<>> THEN Throw(g)
     ELSE IF \E k \in DOMAIN group : g.players[group[k]] # "" /\ g.players[group[k]] # username THEN Throw(g)
     ELSE IF \E c \in DOMAIN claimed : claimed[c] = "" THEN Ok(g1)
     ELSE Ok(start_order_writing(g1))

\* ServerGameData.remove_unit on a nations table
remove_unit_from(nations, province) ==
  IF has_unit(nations, province)
  THEN LET owner == get_unit_owner_id(nations, province) IN [nations EXCEPT ![owner].units = SelectSeq(@, LAMBDA u : u.province # province)]
  ELSE nations

\* ServerGameData.remove_unit
remove_unit(g, province) == Ok(with_cur(g, [cur(g) EXCEPT !.nations = remove_unit_from(@, province)]))

\* ServerGameData.spawn_unit; v is the value it returns
spawn_unit(g, country, province, type, coast, force) ==
  LET occupied == has_unit(cur(g).nations, province)
      g1 == IF occupied THEN remove_unit(g, province).g ELSE g
      coast1 == IF type = Fleet /\ Len(coasts(province)) = 1 THEN coasts(province)[1] ELSE coast
      unit == [type |-> type, province |-> province, coast |-> coast1]
  IN IF occupied /\ ~force THEN [g |-> g, err |-> FALSE, v |-> FALSE]
     ELSE IF ~province_exists(province) THEN [g |-> g1, err |-> TRUE, v |-> FALSE]
     ELSE IF type = Fleet /\ ~water(province) /\ Len(coasts(province)) = 0 THEN [g |-> g1, err |-> TRUE, v |-> FALSE]
     ELSE IF type = Fleet /\ ~water(province) /\ ~includes(coasts(province), coast1) THEN [g |-> g1, err |-> TRUE, v |-> FALSE]
     ELSE IF type = Army /\ water(province) THEN [g |-> g1, err |-> TRUE, v |-> FALSE]
     ELSE IF country \notin DOMAIN cur(g1).nations THEN [g |-> g1, err |-> TRUE, v |-> FALSE]
     ELSE [g |-> with_cur(g1, [cur(g1) EXCEPT !.nations[country].units = Append(@, unit)]), err |-> FALSE, v |-> TRUE]

\* ServerGameData.submit_cancel_order
submit_cancel_order(g, username, order) ==
  LET nations == cur(g).nations
      owner == get_unit_owner_id(nations, order.province)
  IN IF g.phase # OrderWriting THEN Ok(g)
     ELSE IF ~has_unit(nations, order.province) THEN Throw(g)
     ELSE IF get_unit_owner_player(nations, g.players, order.province) # username THEN Throw(g)
     ELSE Ok(with_cur(g, [cur(g) EXCEPT !.orders[owner] = delete_order(@, order.province)]))

\* submit_normal_order without the test of who owns the unit
submit_normal_order_for_anyone(g, username, order) ==
  LET nations == cur(g).nations
      owner == get_unit_owner_id(nations, order.province)
  IN IF g.phase # OrderWriting THEN Throw(g)
     ELSE IF ~has_unit(nations, order.province) THEN Throw(g)
     ELSE IF ~\E o \in get_valid_orders(nations, get_unit(nations, order.province)) : order_id(o) = order_id(order) THEN Throw(g)
     ELSE Ok(with_cur(g, [cur(g) EXCEPT !.orders[owner] = put_order(@, [order EXCEPT !.result = unprocessed])]))

\* ServerGameData.submit_normal_order
submit_normal_order(g, username, order) ==
  LET nations == cur(g).nations
      owner == get_unit_owner_id(nations, order.province)
  IN IF g.phase # OrderWriting THEN Throw(g)
     ELSE IF ~has_unit(nations, order.province) THEN Throw(g)
     ELSE IF get_unit_owner_player(nations, g.players, order.province) # username THEN Throw(g)
     ELSE IF ~\E o \in get_valid_orders(nations, get_unit(nations, order.province)) : order_id(o) = order_id(order) THEN Throw(g)
     ELSE Ok(with_cur(g, [cur(g) EXCEPT !.orders[owner] = put_order(@, [order EXCEPT !.result = unprocessed])]))

\* ServerGameData.submit_retreat
submit_retreat(g, username, retreat) ==
  LET prev_state == prev(g)
      dislodgement == prev_state.dislodgements[retreat.province]
  IN IF g.phase # Retreating THEN Throw(g)
     ELSE IF retreat.province \notin DOMAIN prev_state.dislodgements THEN Throw(g)
     ELSE IF country_owner(g.players, dislodgement.country) # username THEN Throw(g)
     ELSE IF ~\E r \in get_valid_retreats(prev_state, cur(g).nations, dislodgement) : order_id(r) = order_id(retreat) THEN Throw(g)
     ELSE Ok(with_prev(g, [prev_state EXCEPT !.retreats[dislodgement.country] = put_order(@, [retreat EXCEPT !.result = unprocessed])]))

\* shared.BuildOrder, shared.DisbandOrder, shared.PassOrder
BuildOrder(country, province, unitType, coast) == [type |-> "build", country |-> country, province |-> province, unitType |-> unitType, coast |-> coast]

DisbandOrder(country, unit) == [type |-> "disband", country |-> country, province |-> unit, unitType |-> "", coast |-> ""]

PassOrder(country) == [type |-> "pass", country |-> country, province |-> "", unitType |-> "", coast |-> ""]

\* GameData.get_valid_build_orders (section 4.E of the specification)
get_valid_build_orders(nations, country) ==
  LET free == {p \in Range(homeSupplyCenters(country)) : includes(nations[country].supplyCenters, p) /\ ~has_unit(nations, p)}
  IN {PassOrder(country)} \cup {BuildOrder(country, p, Army, "") : p \in {q \in free : ~water(q)}} \cup {BuildOrder(country, p, Fleet, coasts(p)[1]) : p \in {q \in free : coasts(q) # <<>>}}

\* GameData.get_valid_disband_orders (section 4.E of the specification)
get_valid_disband_orders(nations, country) == {PassOrder(country)} \cup {DisbandOrder(country, nations[country].units[k].province) : k \in DOMAIN nations[country].units}

\* Math.abs
abs(n) == IF n < 0 THEN -n ELSE n

\* submit_adjust_order as it would be without the test of the quota
submit_adjust_order_unbounded(g, username, order) ==
  LET prev_state == prev(g)
      to_build == prev_state.nations[order.country].toBuild
      valid_orders == IF to_build > 0 THEN get_valid_build_orders(cur(g).nations, order.country) ELSE get_valid_disband_orders(cur(g).nations, order.country)
      submitted == prev_state.adjustments[order.country]
  IN IF g.phase # CreatingDisbanding THEN Throw(g)
     ELSE IF order.country \notin DOMAIN g.players \/ country_owner(g.players, order.country) # username THEN Throw(g)
     ELSE IF to_build = 0 THEN Throw(g)
     ELSE IF order \notin valid_orders THEN Throw(g)
     ELSE IF order.type # "pass" /\ includes(submitted, order) THEN Throw(g)
     ELSE Ok(with_prev(g, [prev_state EXCEPT !.adjustments[order.country] = Append(submitted, order)]))

\* ServerGameData.submit_adjust_order
submit_adjust_order(g, username, order) ==
  LET prev_state == prev(g)
      to_build == prev_state.nations[order.country].toBuild
      valid_orders == IF to_build > 0 THEN get_valid_build_orders(cur(g).nations, order.country) ELSE get_valid_disband_orders(cur(g).nations, order.country)
      submitted == prev_state.adjustments[order.country]
      submitted_pass_index == findIndex(submitted, LAMBDA o : o.type = "pass")
      spliced == IF Len(submitted) >= abs(to_build) THEN [k \in 1..(Len(submitted) - 1) |-> IF k < submitted_pass_index THEN submitted[k] ELSE submitted[k + 1]] ELSE submitted
  IN IF g.phase # CreatingDisbanding THEN Throw(g)
     ELSE IF order.country \notin DOMAIN g.players \/ country_owner(g.players, order.country) # username THEN Throw(g)
     ELSE IF to_build = 0 THEN Throw(g)
     ELSE IF order \notin valid_orders THEN Throw(g)
     ELSE IF order.type # "pass" /\ includes(submitted, order) THEN Throw(g)
     ELSE IF Len(submitted) >= abs(to_build) /\ submitted_pass_index = 0 THEN Throw(g)
     ELSE Ok(with_prev(g, [prev_state EXCEPT !.adjustments[order.country] = Append(spliced, order)]))

\* ServerGameData.submit_order
submit_order(g, username, order) ==
  CASE order.type = "cancel" -> submit_cancel_order(g, username, order)
    [] order.type = "retreat" -> submit_retreat(g, username, order)
    [] order.type \in {"build", "disband", "pass"} -> submit_adjust_order(g, username, order)
    [] OTHER -> submit_normal_order(g, username, order)

\* start_retreat_writing as it would be if every new state began a new year
start_retreat_writing_next_year(g) ==
  LET state == cur(g)
      newState == State(state.date + 1, IF state.season = Fall THEN Spring ELSE Fall, state.nations)
      old == [state EXCEPT !.retreats = <<>>, !.dislodgements = <<>>, !.keys = @ \cup {"retreats", "dislodgements"}]
  IN [with_cur(g, old) EXCEPT !.history = Append(@, newState), !.phase = Retreating]

\* ServerGameData.start_retreat_writing
start_retreat_writing(g) ==
  LET state == cur(g)
      newState == IF state.season = Fall THEN State(state.date + 1, Spring, state.nations) ELSE State(state.date, Fall, state.nations)
      old == [state EXCEPT !.retreats = <<>>, !.dislodgements = <<>>, !.keys = @ \cup {"retreats", "dislodgements"}]
  IN [with_cur(g, old) EXCEPT !.history = Append(@, newState), !.phase = Retreating]

\* the body of the inner loop of update_supply_centers as it would be if it
\* did not remove the supply center from its previous owner
capture_supply_center_keeping_owner(nations, country, province) ==
  IF province \in get_supply_centers /\ ~includes(nations[country].supplyCenters, province)
  THEN [nations EXCEPT ![country].supplyCenters = Append(@, province)]
  ELSE nations

\* update_supply_centers: the body of the inner loop for one unit of `country`
capture_supply_center(nations, country, province) ==
  LET holder == findIndex(countries_of(nations), LAMBDA c : includes(nations[c].supplyCenters, province))
      first == findIndex(nations[countries_of(nations)[holder]].supplyCenters, LAMBDA q : q = province)
      spliced == IF holder = 0 THEN nations ELSE [nations EXCEPT ![countries_of(nations)[holder]].supplyCenters = [k \in 1..(Len(@) - 1) |-> IF k < first THEN @[k] ELSE @[k + 1]]]
  IN IF province \in get_supply_centers /\ ~includes(nations[country].supplyCenters, province)
     THEN [spliced EXCEPT ![country].supplyCenters = Append(@, province)]
     ELSE nations

\* update_supply_centers: the loops, from unit k of country number ci on
RECURSIVE update_supply_centers_from(_, _, _)
update_supply_centers_from(nations, ci, k) ==
  IF ci > Len(countries_of(nations)) THEN nations
  ELSE IF k > Len(nations[countries_of(nations)[ci]].units) THEN update_supply_centers_from(nations, ci + 1, 1)
  ELSE update_supply_centers_from(capture_supply_center(nations, countries_of(nations)[ci], nations[countries_of(nations)[ci]].units[k].province), ci, k + 1)

\* ServerGameData.update_supply_centers
update_supply_centers(nations) == update_supply_centers_from(nations, 1, 1)

\* start_creating_and_disbanding as it would be if it read the season of the
\* adjudicated turn from the new state and updated nothing
start_creating_and_disbanding_in_fall(g) == IF cur(g).season = Fall THEN [g EXCEPT !.phase = CreatingDisbanding] ELSE start_order_writing(g)

\* ServerGameData.start_creating_and_disbanding
start_creating_and_disbanding(g) ==
  LET updated == update_supply_centers(cur(g).nations)
      to_build(c) == Len(updated[c].supplyCenters) - Len(updated[c].units)
      prev_state == prev(g)
      prev1 == [prev_state EXCEPT !.nations = [c \in DOMAIN @ |-> [@[c] EXCEPT !.toBuild = to_build(c)]],
                                  !.adjustments = [c \in {d \in DOMAIN updated : to_build(d) # 0} |-> <<>>],
                                  !.keys = @ \cup {"adjustments"}]
  IN IF cur(g).season = Spring
     THEN [with_prev(with_cur(g, [cur(g) EXCEPT !.nations = updated]), prev1) EXCEPT !.phase = CreatingDisbanding]
     ELSE start_order_writing(g)

\* ServerGameData.make_unit_retreat
make_unit_retreat_keeping_unit(g, provinceId, attacker) ==
  LET nations == cur(g).nations
      unit == get_unit(nations, provinceId)
      country == get_unit_owner_id(nations, provinceId)
      prev_state == prev(g)
      prev1 == [prev_state EXCEPT !.dislodgements = put(@, unit.province, [unit |-> unit, from |-> attacker, country |-> country]),
                                  !.retreats = IF country \in DOMAIN @ THEN @ ELSE put(@, country, <<>>)]
  IN IF has_unit(nations, provinceId) THEN with_prev(g, prev1) ELSE g

make_unit_retreat(g, provinceId, attacker) ==
  LET nations == cur(g).nations
      unit == get_unit(nations, provinceId)
      country == get_unit_owner_id(nations, provinceId)
      prev_state == prev(g)
      prev1 == [prev_state EXCEPT !.dislodgements = put(@, unit.province, [unit |-> unit, from |-> attacker, country |-> country]),
                                  !.retreats = IF country \in DOMAIN @ THEN @ ELSE put(@, country, <<>>)]
  IN IF has_unit(nations, provinceId)
     THEN with_prev(with_cur(g, [cur(g) EXCEPT !.nations = remove_unit_from(@, provinceId)]), prev1)
     ELSE g

\* calculate_retreats: the loop over the retreats, from number k on
RECURSIVE apply_retreats(_, _, _, _)
apply_retreats(nations, dislodgements, retreats, k) ==
  IF k > Len(retreats) THEN nations
  ELSE LET retreat == retreats[k]
           dislodgement == dislodgements[retreat.province]
           new_unit == [type |-> dislodgement.unit.type, province |-> retreat.dest, coast |-> retreat.coast]
       IN IF retreat.result = success
          THEN apply_retreats([nations EXCEPT ![dislodgement.country].units = Append(@, new_unit)], dislodgements, retreats, k + 1)
          ELSE apply_retreats(nations, dislodgements, retreats, k + 1)

\* retreat.result as it would be if no retreat were compared with the others
retreat_result_alone(retreats, retreat) == success

\* calculate_retreats: retreat.result
retreat_result(retreats, retreat) == IF \E k \in DOMAIN retreats : order_id(retreats[k]) # order_id(retreat) /\ retreats[k].dest = retreat.dest THEN fail ELSE success

\* calculate_retreats as it would be without its last line
calculate_retreats_unfinished(g) == IF g.phase # Retreating THEN Throw(g) ELSE Ok(g)

\* ServerGameData.calculate_retreats
calculate_retreats(g) ==
  LET prev_state == prev(g)
      table == prev_state.retreats
      owners == SelectSeq(Countries, LAMBDA c : c \in DOMAIN table)
      retreats == flat([k \in DOMAIN owners |-> table[owners[k]]])
      stamp(r) == [r EXCEPT !.result = retreat_result(retreats, r)]
      stamped == [k \in DOMAIN retreats |-> stamp(retreats[k])]
      prev1 == [prev_state EXCEPT !.retreats = [c \in DOMAIN table |-> [k \in DOMAIN table[c] |-> stamp(table[c][k])]]]
      nations1 == apply_retreats(cur(g).nations, prev_state.dislodgements, stamped, 1)
  IN IF g.phase # Retreating THEN Throw(g)
     ELSE Ok(start_creating_and_disbanding(with_prev(with_cur(g, [cur(g) EXCEPT !.nations = nations1]), prev1)))

\* fill_orders_with_holds: the holds added to the table of country c
fill_with_holds(table, units) == table \o SelectSeq([k \in DOMAIN units |-> HoldOrder(units[k].province)], LAMBDA h : ~\E j \in DOMAIN table : table[j].province = h.province)

\* fill_orders_with_holds: the numbers, in the order of the loop, of the
\* countries that have a unit and no table in state.orders (a neutral country
\* is not a key of this.players, so start_order_writing gives it no table);
\* state.orders[c][u.province] raises a TypeError for the first of them
holdless(state) ==
  LET cs == countries_of(state.nations)
  IN {k \in DOMAIN cs : state.nations[cs[k]].units # <<>> /\ cs[k] \notin DOMAIN state.orders}

\* ServerGameData.fill_orders_with_holds: the tables after the loop, or
\* after the part of it that ran before the TypeError
fill_orders_with_holds(state) ==
  LET cs == countries_of(state.nations)
      reached(c) == \A k \in holdless(state) : \E j \in 1..(k - 1) : cs[j] = c
  IN [state EXCEPT !.orders = [c \in DOMAIN @ |-> IF reached(c) THEN fill_with_holds(@[c], state.nations[c].units) ELSE @[c]]]

\* the flattened list as it would be if the enumeration of the stored
\* orders were not the same on every run: once a run has been made, the
\* orders are enumerated from the last to the first
flatten_orders_unstable(state) ==
  LET cs == SelectSeq(Countries, LAMBDA c : c \in DOMAIN state.orders)
      listed == flat([k \in DOMAIN cs |-> state.orders[cs[k]]])
  IN IF \E h \in DOMAIN handlers : handlers[h].pc = "adjudicated" THEN [k \in DOMAIN listed |-> listed[Len(listed) + 1 - k]] ELSE listed

\* calculate_orders: the flattened list `orders`
flatten_orders(state) == LET cs == SelectSeq(Countries, LAMBDA c : c \in DOMAIN state.orders) IN flat([k \in DOMAIN cs |-> state.orders[cs[k]]])

\* what the closures of calculate_orders close over
adjudication_context(g, orders) == [orders |-> orders, unit |-> [p \in ProvinceSet |-> has_unit(cur(g).nations, p)], team |-> [p \in ProvinceSet |-> get_unit_owner_player(cur(g).nations, g.players, p)]]

\* the list to_dislodge as it would be without the filter by cannot_dislodge
to_dislodge_list_unfiltered(orders, successes) ==
  LET moved == SelectSeq([i \in DOMAIN orders |-> i], LAMBDA i : i <= Len(successes) /\ successes[i] /\ orders[i].type = "move")
  IN [k \in DOMAIN moved |-> [unit |-> orders[moved[k]].dest, attacker |-> IF orders[moved[k]].isConvoy THEN "" ELSE orders[moved[k]].province]]

\* calculate_orders: the list to_dislodge after its filter, orders[i] being
\* the successful moves in index order
to_dislodge_list(orders, successes) ==
  LET moved == SelectSeq([i \in DOMAIN orders |-> i], LAMBDA i : i <= Len(successes) /\ successes[i] /\ orders[i].type = "move")
      cannot_dislodge == {orders[moved[k]].province : k \in DOMAIN moved}
      all == [k \in DOMAIN moved |-> [unit |-> orders[moved[k]].dest, attacker |-> IF orders[moved[k]].isConvoy THEN "" ELSE orders[moved[k]].province]]
  IN SelectSeq(all, LAMBDA d : d.unit \notin cannot_dislodge)

\* calculate_orders: order.result of order i when the function ends
final_result(orders, successes, to_dislodge, i) ==
  IF i > Len(successes) THEN orders[i].result
  ELSE IF (\E k \in DOMAIN to_dislodge : to_dislodge[k].unit = orders[i].province) /\ findIndex(orders, LAMBDA o : o.province = orders[i].province) = i THEN dislodged
  ELSE IF successes[i] THEN success ELSE fail

\* calculate_orders: the loop `for (let d of to_dislodge)`, from number k on
RECURSIVE dislodge_all(_, _, _, _)
dislodge_all(g, orders, to_dislodge, k) ==
  IF k > Len(to_dislodge) THEN g
  ELSE IF \E j \in DOMAIN orders : orders[j].province = to_dislodge[k].unit
       THEN dislodge_all(make_unit_retreat(g, to_dislodge[k].unit, to_dislodge[k].attacker), orders, to_dislodge, k + 1)
       ELSE dislodge_all(g, orders, to_dislodge, k + 1)

\* calculate_orders without the loop over successful_moves
leave_units(nations, orders, successes) == nations

\* calculate_orders: the loop `for (let move of successful_moves)` on the
\* units that are left; a unit is found by the province it stood on
apply_moves(nations, orders, successes) ==
  LET move_of(u) == findIndex([i \in DOMAIN orders |-> [o |-> orders[i], ok |-> i <= Len(successes) /\ successes[i]]], LAMBDA e : e.ok /\ e.o.type = "move" /\ e.o.province = u.province)
      moved(u) == IF move_of(u) = 0 \/ u # get_unit(nations, u.province) THEN u ELSE [u EXCEPT !.province = orders[move_of(u)].dest, !.coast = orders[move_of(u)].coast]
  IN [c \in DOMAIN nations |-> [nations[c] EXCEPT !.units = [k \in DOMAIN @ |-> moved(@[k])]]]

\* calculate_orders: the filter that leaves the contested provinces
contested_filter(contested, stamped, to_dislodge) ==
  LET failed_moves == SelectSeq(stamped, LAMBDA o : o.type = "move" /\ o.result # success)
      counted == SelectSeq(failed_moves, LAMBDA o : o.result # dislodged \/ ~\E k \in DOMAIN to_dislodge : to_dislodge[k].unit = o.province /\ to_dislodge[k].attacker = o.dest)
  IN SelectSeq(contested, LAMBDA q : Len(counted) >= 2)

\* calculate_orders: the orders of a table with their results stamped
stamp_orders(table, orders, stamped) == [c \in DOMAIN table |-> [k \in DOMAIN table[c] |-> stamped[findIndex(orders, LAMBDA x : x.province = table[c][k].province)]]]

\* calculate_orders from the main loop on: g1 is the game start_retreat_writing
\* left, run what the main loop computed
apply_resolutions(g1, orders, run) ==
  Bind(to_dislodge_list(orders, run.v), LAMBDA to_dislodge :
  Bind([i \in DOMAIN orders |-> [orders[i] EXCEPT !.result = final_result(orders, run.v, to_dislodge, i)]], LAMBDA stamped :
  IF run.st.overflow THEN Throw(with_prev(g1, [prev(g1) EXCEPT !.orders = stamp_orders(@, orders, stamped)]))
  ELSE Bind(dislodge_all(g1, orders, to_dislodge, 1), LAMBDA g2 :
       Bind(with_prev(with_cur(g2, [cur(g2) EXCEPT !.nations = apply_moves(@, orders, run.v)]),
                      [prev(g2) EXCEPT !.orders = stamp_orders(@, orders, stamped),
                                       !.contested = contested_filter(run.st.contested, stamped, to_dislodge),
                                       !.keys = @ \cup {"contested"}]), LAMBDA g3 :
       IF \E k \in DOMAIN to_dislodge : \E j \in DOMAIN orders : orders[j].province = to_dislodge[k].unit
       THEN Ok(g3)
       ELSE Ok(start_creating_and_disbanding(g3))))))

\* ServerGameData.calculate_orders
calculate_orders(g) ==
  IF g.phase # OrderWriting THEN Throw(g)
  ELSE IF holdless(cur(g)) # {} THEN Throw(with_cur(g, fill_orders_with_holds(cur(g))))
  ELSE Bind(fill_orders_with_holds(cur(g)), LAMBDA filled :
       Bind(flatten_orders(filled), LAMBDA orders :
       Bind(start_retreat_writing(with_cur(g, filled)), LAMBDA g1 :
       apply_resolutions(g1, orders, resolve_all(adjudication_context(g1, orders), initial_resolution(Len(orders)), 1, <<>>)))))

\* calculate_adjustments: the builds and disbands applied in turn, from k on
RECURSIVE apply_adjustments(_, _, _)
apply_adjustments(g, adjustments, k) ==
  IF k > Len(adjustments) THEN g
  ELSE LET a == adjustments[k]
       IN CASE a.type = "build" -> apply_adjustments(spawn_unit(g, a.country, a.province, a.unitType, a.coast, FALSE).g, adjustments, k + 1)
            [] a.type = "disband" -> apply_adjustments(remove_unit(g, a.province).g, adjustments, k + 1)
            [] OTHER -> apply_adjustments(g, adjustments, k + 1)

\* calculate_adjustments as it would be if it did not start the next turn
calculate_adjustments_unfinished(g) == IF g.phase # CreatingDisbanding THEN Throw(g) ELSE Ok(g)

\* GameData.calculate_adjustments (section 4.E of the specification)
calculate_adjustments(g) ==
  LET table == prev(g).adjustments
      owners == SelectSeq(Countries, LAMBDA c : c \in DOMAIN table)
  IN IF g.phase # CreatingDisbanding THEN Throw(g)
     ELSE Ok(start_order_writing(apply_adjustments(g, flat([k \in DOMAIN owners |-> table[owners[k]]]), 1)))

\* sanitized without the deletions
keep_foreign(g, username, table, shown) == shown

\* sanitized: `for (let country in table) if (country_owner(country) !=
\* username) delete shown[country]`; nothing happens when table is undefined
strip_foreign(g, username, table, shown) == [c \in {d \in DOMAIN shown : ~(d \in DOMAIN table /\ country_owner(g.players, d) # username)} |-> shown[c]]

\* ServerGameData.sanitized: obj.history (the other keys are copied as they
\* are); username = "" is the call without a user
sanitized(g, username) ==
  LET state == cur(g)
      last == Len(g.history)
  IN IF username = "" THEN g.history
     ELSE IF g.phase = OrderWriting THEN [g.history EXCEPT ![last].orders = strip_foreign(g, username, state.orders, @)]
     ELSE IF g.phase = Retreating THEN [g.history EXCEPT ![last].retreats = strip_foreign(g, username, state.retreats, @)]
     ELSE IF g.phase = CreatingDisbanding THEN [g.history EXCEPT ![last].adjustments = strip_foreign(g, username, state.adjustments, @)]
     ELSE g.history

----------------------------------------------------------------------------
(* The state machine                                                       *)

\* the game held by the variables
game == [phase |-> phase, players |-> players, history |-> history]

\* the variables after an operation that left the game g and threw or not
Becomes(r, op) ==
  /\ phase' = r.g.phase
  /\ players' = r.g.players
  /\ history' = r.g.history
  /\ err' = r.err
  /\ lastOp' = op
  /\ nSpawn' = IF op \in {"spawn_unit", "remove_unit"} THEN nSpawn + 1 ELSE nSpawn
  /\ request' = NoRequest
  /\ nRejected' = nRejected
  /\ handlers' = handlers

\* units of the starting positions: A = army, F = fleet
A(p) == [type |-> Army, province |-> p, coast |-> ""]

F(p) == [type |-> Fleet, province |-> p, coast |-> IF Len(coasts(p)) = 1 THEN coasts(p)[1] ELSE ""]

\* the nations table of new_game with the given units spawned
nations_with(english, french) == [c \in CountrySet |-> new_nation(c, CASE c = "England" -> english [] c = "France" -> french [] OTHER -> <<>>, c = "Germany")]

\* a game as new_game leaves it
new_game(nations, season) == [phase |-> CountryClaiming, players |-> [c \in played(nations) |-> ""], history |-> <<State(StartDate, season, nations)>>]

\* the positions a game starts from (new_game with populate = false, then
\* spawn_unit as the test instructions do)
StartPositions == { nations_with(<<A("Par"), A("Pic")>>, <<F("Bre")>>) }

Init ==
  /\ \E nations \in StartPositions, season \in {Spring, Fall} :
       /\ phase = CountryClaiming
       /\ players = [c \in played(nations) |-> ""]
       /\ history = <<State(StartDate, season, nations)>>
  /\ err = FALSE
  /\ lastOp = "new_game"
  /\ nSpawn = 0
  /\ request = NoRequest
  /\ nRejected = 0
  /\ handlers = <<>>

\* claim_country, accepted
ClaimCountry == \E u \in UserSet, c \in CountrySet :
  /\ ~claim_country(game, u, c).err
  /\ Becomes(claim_country(game, u, c), "claim_country")

\* submit_order with a hold, move, support or convoy order, accepted
SubmitNormalOrder == \E k \in DOMAIN all_units(cur(game).nations) :
  LET unit == all_units(cur(game).nations)[k]
      u == get_unit_owner_player(cur(game).nations, players, unit.province)
  IN /\ phase = OrderWriting
     /\ Len(history) < MaxHistory
     /\ \E o \in get_valid_orders(cur(game).nations, unit) : Becomes(submit_normal_order(game, u, o), "submit_order")

CalculateOrders ==
  /\ phase = OrderWriting
  /\ Len(history) < MaxHistory
  /\ Becomes(calculate_orders(game), "calculate_orders")

\* submit_order with a cancel order for a unit of the user, accepted
SubmitCancelOrder == \E k \in DOMAIN all_units(cur(game).nations) :
  LET unit == all_units(cur(game).nations)[k]
      u == get_unit_owner_player(cur(game).nations, players, unit.province)
  IN /\ phase = OrderWriting
     /\ Len(history) < MaxHistory
     /\ \E j \in DOMAIN cur(game).orders[get_unit_owner_id(cur(game).nations, unit.province)] : cur(game).orders[get_unit_owner_id(cur(game).nations, unit.province)][j].province = unit.province
     /\ Becomes(submit_cancel_order(game, u, HoldOrder(unit.province)), "submit_order")

\* submit_order with a retreat order, accepted
SubmitRetreat == \E p \in ProvinceSet :
  /\ phase = Retreating
  /\ p \in DOMAIN prev(game).dislodgements
  /\ \E r \in get_valid_retreats(prev(game), cur(game).nations, prev(game).dislodgements[p]) :
       Becomes(submit_retreat(game, country_owner(players, prev(game).dislodgements[p].country), r), "submit_order")

CalculateRetreats ==
  /\ phase = Retreating
  /\ Becomes(calculate_retreats(game), "calculate_retreats")

\* submit_order with a build, disband or pass order, accepted
SubmitAdjustOrder == \E c \in DOMAIN players :
  /\ phase = CreatingDisbanding
  /\ \E o \in get_valid_build_orders(cur(game).nations, c) \cup get_valid_disband_orders(cur(game).nations, c) :
       /\ ~submit_adjust_order(game, players[c], o).err
       /\ Becomes(submit_adjust_order(game, players[c], o), "submit_order")

CalculateAdjustments ==
  /\ phase = CreatingDisbanding
  /\ Becomes(calculate_adjustments(game), "calculate_adjustments")

\* spawn_unit, called while retreats are written
SpawnUnit == \E c \in DOMAIN players, p \in ProvinceSet, t \in {Army, Fleet}, force \in BOOLEAN :
  /\ phase = Retreating
  /\ nSpawn < MaxSpawn
  /\ Becomes(spawn_unit(game, c, p, t, "", force), "spawn_unit")

\* remove_unit, called while retreats are written
RemoveUnit == \E p \in ProvinceSet :
  /\ phase = Retreating
  /\ nSpawn < MaxSpawn
  /\ Becomes(remove_unit(game, p), "remove_unit")

Next == ClaimCountry \/ SubmitNormalOrder \/ SubmitCancelOrder \/ CalculateOrders \/ SubmitRetreat \/ CalculateRetreats \/ SubmitAdjustOrder \/ CalculateAdjustments \/ SpawnUnit \/ RemoveUnit

Spec == Init /\ [][Next]_vars

----------------------------------------------------------------------------
(* Adjudication of one turn: the game starts in Order Writing with every   *)
(* unit's order already stored, as a run of claim_country and submit_order *)
(* leaves it, and calculate_orders is applied.                             *)

\* the sequences with one valid order for each of the units
RECURSIVE one_each(_, _)
one_each(nations, units) ==
  IF units = <<>> THEN {<<>>}
  ELSE {<<o>> \o rest : o \in get_valid_orders(nations, Head(units)), rest \in one_each(nations, Tail(units))}

\* the orders in every order of insertion
RECURSIVE insertions(_)
insertions(table) ==
  IF table = <<>> THEN {<<>>}
  ELSE UNION {{<<table[k]>> \o rest : rest \in insertions([j \in 1..(Len(table) - 1) |-> IF j < k THEN table[j] ELSE table[j + 1]])} : k \in DOMAIN table}

\* every support and convoy order of the table is for a move of the table,
\* every support to hold for a unit that is there
matched(nations, table) ==
  \A k \in DOMAIN table :
    LET o == table[k]
    IN CASE o.type = "support move" -> \E j \in DOMAIN table : table[j].type = "move" /\ table[j].province = o.from /\ table[j].dest = o.supporting
         [] o.type = "convoy" -> \E j \in DOMAIN table : table[j].type = "move" /\ table[j].isConvoy /\ table[j].province = o.start /\ table[j].dest = o.end
         [] o.type = "support hold" -> has_unit(nations, o.supporting)
         [] OTHER -> TRUE

\* the order tables of a position: one valid order for each unit
OrderTables(nations) ==
  LET tables_of(c) == UNION {insertions(x) : x \in one_each(nations, nations[c].units)}
      cs == played_list(nations)
      all == {[c \in played(nations) |-> IF c = cs[1] THEN p[1] ELSE p[2]] : p \in tables_of(cs[1]) \X tables_of(cs[2])}
  IN {t \in all : matched(nations, flat([k \in DOMAIN cs |-> t[cs[k]]]))}

\* the position of scenario S3, in a game of France against Germany (the
\* player configuration eliminates England, which is neutral): France has armies in Paris and
\* Burgundy, Germany in Munich and the Ruhr
S3Position == [c \in CountrySet |-> new_nation(c, CASE c = "France" -> <<A("Par"), A("Bur")>> [] c = "Germany" -> <<A("Mun"), A("Ruh")>> [] OTHER -> <<>>, c = "England")]

\* a game of England against France on a map whose player configuration
\* eliminates Germany and keeps it as a neutral country: populate gave the
\* neutral country the army that starts in Munich
NeutralPosition == [c \in CountrySet |-> new_nation(c, CASE c = "England" -> <<A("Pic")>> [] c = "France" -> <<A("Par")>> [] OTHER -> <<A("Mun")>>, c = "Germany")]

\* the positions adjudicated: a fleet and an army against an army; two armies
\* against a fleet; three armies around Bre, Pic and Par, split between the
\* countries in three ways; two fleets against an army and the fleet that can
\* convoy it, with the countries either way round; the four armies of S3; a position
\* with a unit of a neutral country
AdjPositions ==
  { nations_with(<<F("Eng"), A("Pic")>>, <<A("Bre")>>),
    nations_with(<<A("Par"), A("Pic")>>, <<F("Bre")>>),
    nations_with(<<A("Par"), A("Pic")>>, <<A("Bre")>>),
    nations_with(<<A("Bre")>>, <<A("Pic"), A("Par")>>),
    nations_with(<<A("Bre"), A("Pic"), A("Par")>>, <<>>),
    nations_with(<<F("Lon"), F("Pic")>>, <<A("Bre"), F("Eng")>>),
    nations_with(<<A("Bre"), F("Eng")>>, <<F("Lon"), F("Pic")>>),
    S3Position,
    NeutralPosition }

AdjInit ==
  /\ \E nations \in AdjPositions, season \in {Spring, Fall} : \E t \in OrderTables(nations) :
       /\ phase = OrderWriting
       /\ players = [c \in played(nations) |-> IF c = played_list(nations)[1] THEN "alice" ELSE "bob"]
       /\ history = <<[State(StartDate, season, nations) EXCEPT !.orders = t, !.keys = {"orders"}]>>
  /\ err = FALSE
  /\ lastOp = "submit_order"
  /\ nSpawn = 0
  /\ request = NoRequest
  /\ nRejected = 0
  /\ handlers = <<>>

AdjSpec == AdjInit /\ [][CalculateOrders]_vars

----------------------------------------------------------------------------
(* Requests: every operation called in every phase, by every user, with    *)
(* arguments it accepts and with arguments it rejects. The arguments of    *)
(* the last call are kept in `request`.                                    *)

\* England attacks A Par from Bre with Pic, France attacks A Mun from Kie
\* with Ruh: two units can be dislodged in one turn, and Burgundy is the one
\* province either can retreat to
RetreatPosition == nations_with(<<A("Bre"), A("Pic"), A("Mun")>>, <<A("Par"), A("Kie"), A("Ruh")>>)

\* England has three armies and one supply center, France two supply centers
\* and no unit
AdjustPosition == nations_with(<<A("Pic"), A("Bur"), A("Ruh")>>, <<>>)

RequestPositions == {RetreatPosition, AdjustPosition}

\* the orders submit_order is called with
OrderInputs ==
  { MoveOrder("Bre", "Par", "", FALSE), SupportMoveOrder("Pic", "Par", "Bre"),
    MoveOrder("Kie", "Mun", "", FALSE), SupportMoveOrder("Ruh", "Mun", "Kie"),
    HoldOrder("Bre"), HoldOrder("Lon"), MoveOrder("Bre", "Mun", "", FALSE), ConvoyOrder("Pic", "Bre", "Lon"),
    CancelOrder("Bre"), CancelOrder("Kie"), CancelOrder("Lon"),
    RetreatOrder("Par", "Bur", ""), RetreatOrder("Mun", "Bur", ""), RetreatOrder("Par", "Pic", ""), RetreatOrder("Bre", "Par", ""),
    BuildOrder("France", "Bre", Army, ""), BuildOrder("France", "Par", Army, ""), BuildOrder("France", "Lon", Army, ""),
    DisbandOrder("England", "Pic"), DisbandOrder("England", "Bur"), DisbandOrder("England", "Ruh"),
    PassOrder("England"), PassOrder("France") }

RequestInit ==
  /\ \E nations \in RequestPositions, season \in {Spring, Fall} :
       /\ phase = CountryClaiming
       /\ players = [c \in played(nations) |-> ""]
       /\ history = <<State(StartDate, season, nations)>>
  /\ err = FALSE
  /\ lastOp = "new_game"
  /\ nSpawn = 0
  /\ request = NoRequest
  /\ nRejected = 0
  /\ handlers = <<>>

\* the variables after a call with the arguments req that left the game r.g
\* and threw or not
Called(r, op, req) ==
  /\ phase' = r.g.phase
  /\ players' = r.g.players
  /\ history' = r.g.history
  /\ err' = r.err
  /\ lastOp' = op
  /\ nSpawn' = nSpawn
  /\ request' = req
  /\ nRejected' = IF r.err THEN nRejected + 1 ELSE nRejected
  /\ handlers' = handlers

\* a run is followed while no more than MaxRejected calls have raised an
\* error and the history has room for the state an operation may append
followed == nRejected <= MaxRejected /\ (phase = OrderWriting => Len(history) < MaxHistory)

ClaimCountryCall == \E u \in UserSet, c \in CountrySet :
  /\ followed
  /\ Called(claim_country(game, u, c), "claim_country", [NoRequest EXCEPT !.user = u, !.country = c])

SubmitOrderCall == \E u \in UserSet, o \in OrderInputs :
  /\ followed
  /\ Called(submit_order(game, u, o), "submit_order", [NoRequest EXCEPT !.user = u, !.order = o])

CalculateOrdersCall ==
  /\ followed
  /\ Called(calculate_orders(game), "calculate_orders", NoRequest)

CalculateRetreatsCall ==
  /\ followed
  /\ Called(calculate_retreats(game), "calculate_retreats", NoRequest)

CalculateAdjustmentsCall ==
  /\ followed
  /\ Called(calculate_adjustments(game), "calculate_adjustments", NoRequest)

RequestNext == ClaimCountryCall \/ SubmitOrderCall \/ CalculateOrdersCall \/ CalculateRetreatsCall \/ CalculateAdjustmentsCall

RequestSpec == RequestInit /\ [][RequestNext]_vars

----------------------------------------------------------------------------
(* The adjudicated turn, read from the history once calculate_orders has   *)
(* returned: its orders with the results stamped on them, and the          *)
(* strengths of section 4.B computed from those final results.             *)

\* calculate_orders has returned without throwing
adjudicated == lastOp = "calculate_orders" /\ ~err

\* calculate_orders has given every unit its order and frozen the state of
\* the turn (start_retreat_writing has appended the new state); it may have
\* thrown after that
frozen == lastOp = "calculate_orders" /\ Len(history) > 1

\* the state whose orders were adjudicated
turn == prev(game)

\* its orders, in index order, as they were stamped
stamped == flatten_orders(turn)

ok(o) == o.result = success

unit_at(p) == has_unit(turn.nations, p)

team(p) == get_unit_owner_player(turn.nations, players, p)

\* the move order (if any) of the unit at p
move_of(p) == {o \in Range(stamped) : o.type = "move" /\ o.province = p}

\* the fleets that successfully convoy the move m, reachable from its start
RECURSIVE convoying(_, _)
convoying(m, reached) ==
  LET more == {q \in ProvinceSet : /\ \E o \in Range(stamped) : o.type = "convoy" /\ o.province = q /\ o.start = m.province /\ o.end = m.dest /\ ok(o)
                                    /\ \E r \in reached \cup {m.province} : q \in adjacent_by(r, {"land", "sea"})}
  IN IF more \subseteq reached THEN reached ELSE convoying(m, reached \cup more)

\* m is not convoyed, or a chain of successful convoys carries it
has_route(m) == ~m.isConvoy \/ \E q \in convoying(m, {}) : m.dest \in adjacent_by(q, {"land", "sea"})

\* the successful supports of the move m
supports_of(m, ignore_teams) == Cardinality({k \in DOMAIN stamped : stamped[k].type = "support move" /\ stamped[k].supporting = m.dest /\ stamped[k].from = m.province /\ ok(stamped[k]) /\ (ignore_teams \/ team(stamped[k].province) # team(m.dest))})

\* m and the move of the unit at its destination are a head-to-head battle
head_to_head(m) == ~m.isConvoy /\ \E o \in move_of(m.dest) : ~o.isConvoy /\ o.dest = m.province

final_attack_strength(m) ==
  IF ~unit_at(m.dest) \/ (~head_to_head(m) /\ \E o \in move_of(m.dest) : ok(o)) THEN 1 + supports_of(m, TRUE)
  ELSE IF team(m.province) = team(m.dest) THEN 0
  ELSE 1 + supports_of(m, FALSE)

final_hold_strength(p) ==
  IF ~unit_at(p) \/ \E o \in move_of(p) : ok(o) THEN 0
  ELSE IF move_of(p) # {} THEN 1
  ELSE 1 + Cardinality({k \in DOMAIN stamped : stamped[k].type = "support hold" /\ stamped[k].supporting = p /\ ok(stamped[k])})

final_defend_strength(m) == 1 + supports_of(m, TRUE)

final_prevent_strength(m) ==
  IF ~has_route(m) \/ (head_to_head(m) /\ \E o \in move_of(m.dest) : ok(o)) THEN 0
  ELSE 1 + supports_of(m, TRUE)

\* the attack strength of m is greater than what it has to overcome
overcomes(m) ==
  /\ head_to_head(m) => \A o \in move_of(m.dest) : final_attack_strength(m) > final_defend_strength(o)
  /\ ~head_to_head(m) => final_attack_strength(m) > final_hold_strength(m.dest)
  /\ \A o \in Range(stamped) : o.type = "move" /\ o.dest = m.dest /\ o.province # m.province => final_attack_strength(m) > final_prevent_strength(o)

\* the units now at p
standing(p) == {k \in DOMAIN all_units(cur(game).nations) : all_units(cur(game).nations)[k].province = p}

\* the unit that was at p is now at q
stands_on(p, q) == \E k \in standing(q) : all_units(cur(game).nations)[k].type = get_unit(turn.nations, p).type

\* C1 as stated: a Move order is stamped success iff its attack strength is
\* greater than the hold strength of its destination (the defend strength
\* of the opposing move, head to head) and than the prevent strength of
\* every other Move to the same destination; a move that fails leaves its
\* unit where it is.
C1_Stated ==
  adjudicated => \A m \in Range(stamped) : m.type = "move" =>
    /\ ok(m) <=> overcomes(m)
    /\ m.result = fail => stands_on(m.province, m.province)

\* C1: a Move order is stamped success iff it has a working route (it is not
\* convoyed, or a chain of successful Convoy orders carries it) and its
\* attack strength is greater than the hold strength of its destination
\* (the defend strength of the opposing move, head to head) and than the
\* prevent strength of every other Move to the same destination; with equal
\* strengths it fails, and a move that fails leaves its unit where it is.
C1_MoveSucceedsIffStronger ==
  adjudicated => \A m \in Range(stamped) : m.type = "move" =>
    /\ ok(m) <=> (has_route(m) /\ overcomes(m))
    /\ m.result = fail => stands_on(m.province, m.province)

\* a move succeeds while another bounces on equal strengths
C1_Witness ==
  /\ adjudicated
  /\ \E m \in Range(stamped) : m.type = "move" /\ m.result = fail /\ has_route(m) /\ final_attack_strength(m) = 1 /\ final_hold_strength(m.dest) = 1
  /\ \E m \in Range(stamped) : m.type = "move" /\ ok(m) /\ final_attack_strength(m) > final_hold_strength(m.dest)

\* the units on the board now
units_now == all_units(cur(game).nations)

\* C2 as stated: after claim_country, submit_order, calculate_orders,
\* calculate_retreats, spawn_unit and remove_unit the current state has at
\* most one unit in each province, and every unit stands on a province of
\* the map.
C2_Stated ==
  lastOp \in {"claim_country", "submit_order", "calculate_orders", "calculate_retreats", "spawn_unit", "remove_unit"} =>
    /\ \A j, k \in DOMAIN units_now : j # k => units_now[j].province # units_now[k].province
    /\ \A k \in DOMAIN units_now : units_now[k].province \in ProvinceSet

\* the units of the adjudicated turn that a successful move pushed out: a
\* move arrived in their province and they did not leave it
pushed_out == {p \in ProvinceSet : unit_at(p) /\ (\E m \in Range(stamped) : m.type = "move" /\ m.dest = p /\ ok(m)) /\ ~\E o \in move_of(p) : ok(o)}

\* C3: calculate_orders called in Order Writing leaves the phase Retreating
\* iff at least one unit was dislodged; when none was, it leaves Order
\* Writing if the adjudicated turn was a Spring turn and
\* Creating/Disbanding if it was a Fall turn.
C3_PhaseAfterOrders ==
  adjudicated =>
    /\ phase = Retreating <=> DOMAIN turn.dislodgements # {}
    /\ DOMAIN turn.dislodgements = pushed_out
    /\ pushed_out = {} => phase = (IF turn.season = Spring THEN OrderWriting ELSE CreatingDisbanding)

\* a Fall turn in which a unit is dislodged
C3_Witness == adjudicated /\ turn.season = Fall /\ pushed_out # {} /\ phase = Retreating

\* C4: calculate_retreats called in Retreating never leaves the phase
\* Retreating: it leaves Order Writing when the adjudicated turn was Spring
\* and Creating/Disbanding when it was Fall, whether or not a retreat order
\* was submitted.
C4_PhaseAfterRetreats ==
  lastOp = "calculate_retreats" =>
    /\ ~err
    /\ phase # Retreating
    /\ phase = (IF turn.season = Spring THEN OrderWriting ELSE CreatingDisbanding)
    /\ cur(game).season = (IF turn.season = Spring THEN Fall ELSE Spring)

\* the retreats of a Spring turn are processed with a retreat order stored
C4_Witness ==
  /\ lastOp = "calculate_retreats"
  /\ turn.season = Spring
  /\ \E c \in DOMAIN turn.retreats : \E k \in DOMAIN turn.retreats[c] : turn.retreats[c][k].result = success
  /\ phase = OrderWriting

\* the users a view is computed for: the players and somebody who plays no
\* country
Viewers == UserSet \cup {"carol"}

\* the game in which nobody but v has submitted an order in this phase
without_others(g, v) == with_cur(g, [cur(g) EXCEPT !.orders = [c \in DOMAIN @ |-> IF country_owner(g.players, c) = v THEN @[c] ELSE <<>>]])

\* C5: while the phase is Order Writing, the sanitized view of a user v has,
\* in the last state, no order entry of a country v does not own, and v's
\* view is the one v would get had the other players submitted nothing.
C5_OrdersHidden ==
  phase = OrderWriting => \A v \in Viewers :
    /\ \A c \in DOMAIN sanitized(game, v)[Len(history)].orders : country_owner(players, c) = v
    /\ sanitized(game, v) = sanitized(without_others(game, v), v)

\* both players have submitted an order and alice's view shows hers only
C5_Witness ==
  /\ phase = OrderWriting
  /\ players["England"] = "alice"
  /\ cur(game).orders["England"] # <<>>
  /\ cur(game).orders["France"] # <<>>
  /\ DOMAIN sanitized(game, "alice")[Len(history)].orders = {"England"}

\* C6 as stated: while the phase is Retreating (Creating/Disbanding) the
\* sanitized view of a user v contains no retreat order (no adjustment
\* order) submitted in the running phase for a country v does not own.
\* submit_retreat and submit_adjust_order store them in the state before the
\* last.
C6_Stated ==
  \A v \in UserSet : \A c \in DOMAIN players : country_owner(players, c) # v =>
    /\ phase = Retreating /\ Len(history) > 1 /\ c \in DOMAIN sanitized(game, v)[Len(history) - 1].retreats
         => sanitized(game, v)[Len(history) - 1].retreats[c] = <<>>
    /\ phase = CreatingDisbanding /\ Len(history) > 1 /\ c \in DOMAIN sanitized(game, v)[Len(history) - 1].adjustments
         => sanitized(game, v)[Len(history) - 1].adjustments[c] = <<>>

\* a move of another team to the province of the supporter s, not a convoyed
\* move without a working route
attacks_supporter(m, s) == m.type = "move" /\ m.dest = s.province /\ team(m.province) # team(s.province) /\ has_route(m)

is_support(s) == s.type \in {"support hold", "support move"}

\* C7 as stated: a support order is cut iff a move of another team targets
\* the supporter's province from a province other than the one supported
\* into, over a working route.
C7_Stated ==
  adjudicated => \A s \in Range(stamped) : is_support(s) =>
    (~ok(s) <=> \E m \in Range(stamped) : attacks_supporter(m, s) /\ m.province # s.supporting)

\* C7: a support order is cut (not stamped success: stamped fail, or
\* dislodged when the supporter is dislodged) iff a move of another team
\* targets the supporter's province over a working route, either from a
\* province other than the one supported into, or from that province and
\* successfully.
C7_SupportCut ==
  adjudicated => \A s \in Range(stamped) : is_support(s) =>
    /\ ~ok(s) <=> \E m \in Range(stamped) : attacks_supporter(m, s) /\ (m.province # s.supporting \/ ok(m))
    /\ s.result = fail <=> (s.province \notin pushed_out /\ \E m \in Range(stamped) : attacks_supporter(m, s) /\ (m.province # s.supporting \/ ok(m)))

\* a support is cut from the side, and another is cut by the unit it is
\* directed against
C7_Witness ==
  /\ adjudicated
  /\ \E s \in Range(stamped) : is_support(s) /\ s.result = fail /\ \E m \in Range(stamped) : attacks_supporter(m, s) /\ m.province # s.supporting
  /\ \E s \in Range(stamped) : is_support(s) /\ \E m \in Range(stamped) : attacks_supporter(m, s) /\ m.province = s.supporting /\ ~ok(m) /\ ok(s)

\* no two Move orders of the turn have the same destination
distinct_targets == \A i, j \in DOMAIN stamped : stamped[i].type = "move" /\ stamped[j].type = "move" /\ stamped[i].dest = stamped[j].dest => i = j

moves == {m \in Range(stamped) : m.type = "move"}

\* C8 as stated: when no two units target the same province and every
\* support is uncut, every Move order is stamped success and every moved
\* unit stands on its destination.
C8_Stated ==
  adjudicated /\ distinct_targets /\ (\A s \in Range(stamped) : is_support(s) => ok(s)) =>
    \A m \in moves : ok(m) /\ stands_on(m.province, m.dest)

\* a chain of Convoy orders of the turn leads from m's province to its
\* destination
RECURSIVE ordered_convoys(_, _)
ordered_convoys(m, reached) ==
  LET more == {q \in ProvinceSet : /\ \E o \in Range(stamped) : o.type = "convoy" /\ o.province = q /\ o.start = m.province /\ o.end = m.dest
                                    /\ \E r \in reached \cup {m.province} : q \in adjacent_by(r, {"land", "sea"})}
  IN IF more \subseteq reached THEN reached ELSE ordered_convoys(m, reached \cup more)

\* nothing stands in the way of the moves of the turn
unopposed ==
  /\ distinct_targets
  /\ \A m \in moves : ~unit_at(m.dest) \/ move_of(m.dest) # {}
  /\ \A m \in moves : ~head_to_head(m)
  /\ \A m \in moves : m.isConvoy => \E q \in ordered_convoys(m, {}) : m.dest \in adjacent_by(q, {"land", "sea"})

\* C8: when no two Move orders have the same destination, every move goes
\* to a province that is empty or whose unit is itself ordered to move, no
\* two units are ordered to change places without a convoy and every
\* convoyed move has a chain of Convoy orders to carry it, every Move order
\* is stamped success and every moved unit stands on its destination.
C8_UnopposedMovesSucceed ==
  frozen /\ unopposed => ~err /\ \A m \in moves : ok(m) /\ stands_on(m.province, m.dest)

\* a unit follows another into the province it leaves, with a support given
C8_Witness ==
  /\ adjudicated /\ unopposed
  /\ \E m \in moves : unit_at(m.dest) /\ ok(m) /\ stands_on(m.province, m.dest)
  /\ \E s \in Range(stamped) : s.type = "support move" /\ ok(s)

\* the three orders of the turn are moves of armies in a circle
circle_of_three ==
  /\ Len(stamped) = 3
  /\ \A k \in DOMAIN stamped : stamped[k].type = "move" /\ ~stamped[k].isConvoy /\ get_unit(turn.nations, stamped[k].province).type = Army
  /\ \A k \in DOMAIN stamped : move_of(stamped[k].dest) # {} /\ ~head_to_head(stamped[k])

\* C9: three armies ordered in a circle, with no other order: all three
\* moves are stamped success, the units rotate, no unit is dislodged and the
\* phase does not become Retreating, whichever order has the lowest index.
C9_CircleOfThree ==
  frozen /\ circle_of_three =>
    /\ ~err
    /\ \A m \in moves : ok(m) /\ stands_on(m.province, m.dest)
    /\ Len(units_now) = 3
    /\ \A j, k \in DOMAIN units_now : j # k => units_now[j].province # units_now[k].province
    /\ DOMAIN turn.dislodgements = {}
    /\ phase # Retreating

\* a circle whose first order is the move out of Par, the armies split
\* between the countries
C9_Witness ==
  /\ adjudicated /\ circle_of_three
  /\ stamped[1].province = "Par" /\ stamped[1].dest = "Bre"
  /\ team("Par") # team("Bre")
  /\ \A m \in moves : ok(m)

\* what resolve returned for each order in the main loop of calculate_orders
main_loop == resolve_all(adjudication_context([game EXCEPT !.history = <<turn>>], stamped), initial_resolution(Len(stamped)), 1, <<>>).v

\* a convoy paradox: the army of m is convoyed by the fleet of c against the
\* unit of s, which supports the attack a on that fleet
paradox(m, c, s, a) ==
  /\ m.type = "move" /\ m.isConvoy
  /\ c.type = "convoy" /\ c.start = m.province /\ c.end = m.dest
  /\ s.type = "support move" /\ s.province = m.dest /\ s.supporting = c.province /\ s.from = a.province
  /\ a.type = "move" /\ a.dest = c.province /\ a.province # m.province
  /\ team(m.province) # team(s.province)
  /\ team(a.province) # team(c.province)
  /\ team(s.province) # team(c.province)

\* C10 as stated: in a convoy paradox the convoyed Move and the Convoy order
\* are stamped fail, and the attack on the fleet is adjudicated with its
\* support uncut.
C10_Stated ==
  adjudicated => \A m, c, s, a \in Range(stamped) : paradox(m, c, s, a) =>
    m.result = fail /\ c.result = fail /\ ok(s) /\ (ok(a) <=> overcomes(a))

\* C10: in a convoy paradox the convoyed Move is stamped fail and the Convoy
\* order does not succeed: the main loop resolves it to fail, and it ends
\* stamped fail, or dislodged when the attack on the fleet dislodges it; the
\* attack on the fleet is adjudicated with its support uncut.
C10_ConvoyParadox ==
  frozen => \A m, c, s, a \in Range(stamped) : paradox(m, c, s, a) =>
    /\ ~err
    /\ m.result = fail
    /\ \A k \in DOMAIN stamped : stamped[k] = c => ~Head(SubSeq(main_loop, k, k))
    /\ c.result = (IF c.province \in pushed_out THEN dislodged ELSE fail)
    /\ ok(s)
    /\ ok(a) <=> overcomes(a)

\* a paradox in which the supported attack dislodges the convoying fleet
C10_Witness ==
  /\ adjudicated
  /\ \E m, c, s, a \in Range(stamped) : paradox(m, c, s, a) /\ ok(a) /\ final_attack_strength(a) = 2 /\ c.province \in pushed_out

----------------------------------------------------------------------------
(* Scenario S3                                                             *)

\* the orders of S3; A Bur has no order and is given a Hold
S3Orders == {MoveOrder("Par", "Bur", "", FALSE), SupportMoveOrder("Mun", "Bur", "Par"), MoveOrder("Ruh", "Mun", "", FALSE), HoldOrder("Bur")}

\* calculate_orders has adjudicated the orders of S3 on the position of S3
scenario_S3 ==
  /\ frozen
  /\ DOMAIN turn.nations = DOMAIN S3Position
  /\ \A c \in DOMAIN S3Position : turn.nations[c].units = S3Position[c].units
  /\ {order_id(o) : o \in Range(stamped)} = S3Orders

\* the result stamped on the order o
result_of(o) == (CHOOSE x \in Range(stamped) : order_id(x) = o).result

\* the units of the new state are the units of the adjudicated one
no_unit_moved == \A c \in DOMAIN turn.nations : cur(game).nations[c].units = turn.nations[c].units

\* C11 as stated: in S3 the support of A Mun is stamped fail (cut by the
\* attack from Ruh), A Par -> Bur and A Ruh -> Mun are stamped fail, and no
\* unit moves.
C11_Stated ==
  scenario_S3 =>
    /\ result_of(SupportMoveOrder("Mun", "Bur", "Par")) = fail
    /\ result_of(MoveOrder("Par", "Bur", "", FALSE)) = fail
    /\ result_of(MoveOrder("Ruh", "Mun", "", FALSE)) = fail
    /\ no_unit_moved

\* C11: in S3 the support of A Mun is stamped success (the attack from Ruh
\* is made by a unit of the supporter's own team and does not cut it),
\* A Par -> Bur is stamped fail (an attack on a unit of its own team has
\* strength 0), A Ruh -> Mun is stamped fail, the Hold of A Bur success, no
\* unit moves and none is dislodged.
C11_ScenarioS3 ==
  scenario_S3 =>
    /\ ~err
    /\ result_of(SupportMoveOrder("Mun", "Bur", "Par")) = success
    /\ result_of(MoveOrder("Par", "Bur", "", FALSE)) = fail
    /\ result_of(MoveOrder("Ruh", "Mun", "", FALSE)) = fail
    /\ result_of(HoldOrder("Bur")) = success
    /\ no_unit_moved
    /\ DOMAIN turn.dislodgements = {}
    /\ phase # Retreating

\* S3 adjudicated, the order of A Ruh stored before the support of A Mun
C11_Witness ==
  /\ scenario_S3 /\ ~err
  /\ \E j, k \in DOMAIN stamped : j < k /\ stamped[j].province = "Ruh" /\ stamped[k].province = "Mun"
  /\ team("Mun") = team("Ruh") /\ team("Par") = team("Bur") /\ team("Mun") # team("Par")

----------------------------------------------------------------------------
(* Requests and what they leave behind                                     *)

\* the last call was submit_order with an order of one of the given types
submitted(types) == lastOp = "submit_order" /\ request.order.type \in types

NormalTypes == {"hold", "move", "support hold", "support move", "convoy"}

\* the call left the game as it was
game_unchanged == phase' = phase /\ players' = players /\ history' = history

\* a unit stands at the province of o, the user u owns the country that owns
\* it, and o is one of the valid orders of the unit
acceptable(u, o) ==
  /\ has_unit(cur(game).nations, o.province)
  /\ country_owner(players, get_unit_owner_id(cur(game).nations, o.province)) = u
  /\ o \in get_valid_orders(cur(game).nations, get_unit(cur(game).nations, o.province))

\* C12: in Order Writing submit_order of a hold, move, support or convoy
\* order is accepted only if a unit stands at order.province, the submitting
\* user owns the country that owns that unit, and the order is one of
\* get_valid_orders(unit) (and then it is accepted); in every other case it
\* raises an error and leaves the stored orders of every country, and the
\* rest of the game, unchanged.
C12_SubmitChecked ==
  [][phase = OrderWriting /\ submitted(NormalTypes)' =>
       IF acceptable(request'.user, request'.order) THEN ~err'
       ELSE err' /\ cur(game)'.orders = cur(game).orders /\ game_unchanged]_vars

\* a valid order for a unit was submitted by the user who does not own it,
\* and was rejected
C12_Witness ==
  /\ phase = OrderWriting /\ submitted(NormalTypes) /\ err
  /\ has_unit(cur(game).nations, request.order.province)
  /\ request.order \in get_valid_orders(cur(game).nations, get_unit(cur(game).nations, request.order.province))
  /\ country_owner(players, get_unit_owner_id(cur(game).nations, request.order.province)) # request.user

\* the orders stored in the game g for the province p in the running turn,
\* with the country they are stored under
stored_at(g, p) == {[country |-> c, order |-> cur(g).orders[c][k]] : <<c, k>> \in {x \in (DOMAIN cur(g).orders) \X (1..Cardinality(ProvinceSet)) : x[2] \in DOMAIN cur(g).orders[x[1]] /\ cur(g).orders[x[1]][x[2]].province = p}}

\* every stored order of g is the one order of a unit, under the unit's
\* country
one_order_each(g) ==
  g.phase = OrderWriting => \A p \in ProvinceSet :
    /\ Cardinality(stored_at(g, p)) <= 1
    /\ Cardinality({k \in DOMAIN flatten_orders(cur(g)) : flatten_orders(cur(g))[k].province = p}) <= 1
    /\ \A e \in stored_at(g, p) : has_unit(cur(g).nations, p) /\ get_unit_owner_id(cur(g).nations, p) = e.country

\* the order calculate_orders has to adjudicate for the unit at p
order_to_adjudicate(p) == IF stored_at(game, p) = {} THEN HoldOrder(p) ELSE order_id((CHOOSE e \in stored_at(game, p) : TRUE).order)

\* C13: during Order Writing each unit has at most one stored order, kept
\* under the country that owns the unit; an accepted submission for a unit
\* replaces the order stored before and an accepted Cancel removes it, both
\* leaving the orders of the other units alone; calculate_orders adjudicates
\* for each unit its last accepted order, or a Hold when none is stored.
C13_OneOrderPerUnit ==
  [][/\ one_order_each(game')
     /\ phase = OrderWriting /\ submitted(NormalTypes)' /\ ~err' =>
          /\ stored_at(game', request'.order.province) = {[country |-> get_unit_owner_id(cur(game).nations, request'.order.province), order |-> request'.order]}
          /\ \A p \in ProvinceSet \ {request'.order.province} : stored_at(game', p) = stored_at(game, p)
     /\ phase = OrderWriting /\ submitted({"cancel"})' /\ ~err' =>
          /\ stored_at(game', request'.order.province) = {}
          /\ \A p \in ProvinceSet \ {request'.order.province} : stored_at(game', p) = stored_at(game, p)
     /\ phase = OrderWriting /\ lastOp' = "calculate_orders" /\ ~err' =>
          /\ Len(stamped') = Len(all_units(cur(game).nations))
          /\ \A k \in DOMAIN all_units(cur(game).nations) :
               \E j \in DOMAIN stamped' : order_id(stamped'[j]) = order_to_adjudicate(all_units(cur(game).nations)[k].province)]_vars

\* calculate_orders has adjudicated a turn in which the unit in Bre was
\* ordered to hold, the unit in Pic to support and the unit in Ruh to
\* support, and the unit in Kie, with no stored order, was given a Hold
C13_Witness ==
  /\ adjudicated
  /\ \E j, k, l \in DOMAIN stamped : stamped[j].province = "Bre" /\ stamped[j].type = "hold" /\ stamped[k].province = "Pic" /\ stamped[k].type = "support move" /\ stamped[l].province = "Kie" /\ stamped[l].type = "hold"
  /\ \E j, k \in DOMAIN turn.orders["England"] : j < k /\ turn.orders["England"][j].province = "Bre" /\ turn.orders["England"][k].province = "Pic"
  /\ \E j, k \in DOMAIN turn.orders["France"] : j < k /\ turn.orders["France"][j].province = "Ruh" /\ turn.orders["France"][k].province = "Kie"

AdjustTypes == {"build", "disband", "pass"}

\* the call of this step is made in a phase that is not the phase of the
\* operation
out_of_phase ==
  \/ submitted(NormalTypes \cup {"cancel"})' /\ phase # OrderWriting
  \/ submitted({"retreat"})' /\ phase # Retreating
  \/ submitted(AdjustTypes)' /\ phase # CreatingDisbanding
  \/ lastOp' = "calculate_orders" /\ phase # OrderWriting
  \/ lastOp' = "calculate_retreats" /\ phase # Retreating

\* C14 as stated: an operation invoked in a phase incompatible with it (a
\* hold, move, support or convoy order or a Cancel outside Order Writing, a
\* Retreat outside Retreating, a Build, Disband or Pass outside
\* Creating/Disbanding, calculate_orders outside Order Writing,
\* calculate_retreats outside Retreating) raises an error and leaves the
\* game unchanged.
C14_Stated == [][out_of_phase => err' /\ game_unchanged]_vars

\* the retreats stored in the state before the last of the game g
retreats_of(g) == LET cs == SelectSeq(Countries, LAMBDA c : c \in DOMAIN prev(g).retreats) IN Range(flat([k \in DOMAIN cs |-> prev(g).retreats[cs[k]]]))

\* the unit a retreat r puts on the board
retreated_unit(r) == [type |-> prev(game).dislodgements[r.province].unit.type, province |-> r.dest, coast |-> r.coast]

\* another submitted retreat names the destination of r
rivalled(r) == \E r2 \in retreats_of(game) : r2.province # r.province /\ r2.dest = r.dest

\* the units the successful retreats give the country c
retreated_to(c) == {retreated_unit(r) : r \in {x \in retreats_of(game) : ~rivalled(x) /\ prev(game).dislodgements[x.province].country = c}}

\* C15: in calculate_retreats a submitted retreat fails iff another
\* submitted retreat names the same destination; every other submitted
\* retreat succeeds and puts exactly one unit of the dislodged unit's type
\* and country on the destination in the new state; the units that were on
\* the board stay, and nothing else is added, so that a dislodged unit with
\* no retreat order or a failed one is on the board nowhere afterwards.
C15_Retreats ==
  [][phase = Retreating /\ lastOp' = "calculate_retreats" =>
       /\ ~err'
       /\ {order_id(r) : r \in retreats_of(game')} = {order_id(r) : r \in retreats_of(game)}
       /\ \A r \in retreats_of(game') : r.result = (IF rivalled(r) THEN fail ELSE success)
       /\ \A r \in retreats_of(game') : r.result = success =>
            /\ Cardinality({k \in DOMAIN all_units(cur(game').nations) : all_units(cur(game').nations)[k].province = r.dest}) = 1
            /\ get_unit(cur(game').nations, r.dest).type = prev(game).dislodgements[r.province].unit.type
            /\ get_unit_owner_id(cur(game').nations, r.dest) = prev(game).dislodgements[r.province].country
       /\ \A c \in DOMAIN cur(game).nations :
            LET old == cur(game).nations[c].units
                new == cur(game').nations[c].units
            IN /\ Len(new) = Len(old) + Cardinality(retreated_to(c))
               /\ SubSeq(new, 1, Len(old)) = old
               /\ {new[k] : k \in (Len(old) + 1)..Len(new)} = retreated_to(c)]_vars

\* two units were dislodged, both were ordered to retreat to Bur, both
\* retreats failed and Bur is empty
C15_Witness ==
  /\ lastOp = "calculate_retreats" /\ ~err
  /\ Cardinality(retreats_of(game)) = 2
  /\ \A r \in retreats_of(game) : r.dest = "Bur" /\ r.result = fail
  /\ ~has_unit(cur(game).nations, "Bur")
  /\ Len(all_units(cur(game).nations)) = 4

\* the moves that failed at p: Move orders targeting p, over a working
\* route, that did not succeed, not counting a mover dislodged by a unit
\* that came from p
bounced_at(p) == {k \in DOMAIN stamped : /\ stamped[k].type = "move" /\ stamped[k].dest = p /\ ~ok(stamped[k]) /\ has_route(stamped[k])
                                          /\ ~(stamped[k].province \in DOMAIN turn.dislodgements /\ turn.dislodgements[stamped[k].province].from = p)}

\* C16 as stated: after calculate_orders a province is in the contested list
\* of the adjudicated state iff at least two Move orders targeting it failed
\* there, not counting a failed mover dislodged by a unit coming from that
\* province; a province a move entered successfully, or that only one move
\* targeted, is not contested.
C16_Stated ==
  adjudicated => \A p \in ProvinceSet : includes(turn.contested, p) <=> Cardinality(bounced_at(p)) >= 2

\* ---------------------------------------------------------------------------
\* Entry to Creating/Disbanding
\* ---------------------------------------------------------------------------

\* the countries that list province p as one of their supply centers in g
owners_of(g, p) == {c \in DOMAIN cur(g).nations : includes(cur(g).nations[c].supplyCenters, p)}

\* the countries that have a unit in province p in g
occupiers_of(g, p) == {c \in DOMAIN cur(g).nations : \E k \in DOMAIN cur(g).nations[c].units : cur(g).nations[c].units[k].province = p}

\* C17: in a step that enters Creating/Disbanding, every occupied supply
\* center belongs afterwards to the country of the unit in it and to no other
\* country, every unoccupied supply center has the owners it had before, and
\* toBuild of each country (kept in the adjudicated state) is its number of
\* supply centers minus its number of units in the new current state, the
\* one in which the moves and the successful retreats were applied.
C17_SupplyCentersOnEntry ==
  [][(phase # CreatingDisbanding /\ phase' = CreatingDisbanding) =>
       /\ \A p \in get_supply_centers :
            IF occupiers_of(game', p) # {}
            THEN owners_of(game', p) = occupiers_of(game', p) /\ Cardinality(owners_of(game', p)) = 1
            ELSE owners_of(game', p) = owners_of(game, p)
       /\ \A c \in DOMAIN cur(game').nations :
            prev(game').nations[c].toBuild = Len(cur(game').nations[c].supplyCenters) - Len(cur(game').nations[c].units)]_vars

\* Creating/Disbanding was entered after a Fall turn with a retreat: a unit
\* stands on a supply center its country did not start with, that center
\* left its previous owner, one country may build and one must disband.
C17_Witness ==
  /\ phase = CreatingDisbanding /\ lastOp = "calculate_retreats" /\ ~err
  /\ \E c \in DOMAIN cur(game).nations : \E p \in get_supply_centers :
       /\ c \in occupiers_of(game, p) /\ ~includes(homeSupplyCenters(c), p) /\ owners_of(game, p) = {c}
  /\ \E c \in DOMAIN cur(game).nations : prev(game).nations[c].toBuild > 0
  /\ \E c \in DOMAIN cur(game).nations : prev(game).nations[c].toBuild < 0
  /\ DOMAIN prev(game).dislodgements # {}

\* ---------------------------------------------------------------------------
\* Adjustment orders
\* ---------------------------------------------------------------------------

\* the adjustment orders stored for country c in g
adjustments_of(g, c) == IF c \in DOMAIN prev(g).adjustments THEN prev(g).adjustments[c] ELSE <<>>

\* |toBuild| of country c in g
quota(g, c) == abs(prev(g).nations[c].toBuild)

\* the sequence s without its element number k
drop(s, k) == [j \in 1..(Len(s) - 1) |-> IF j < k THEN s[j] ELSE s[j + 1]]

\* the stored adjustments respect the quota of every country and hold no
\* Build or Disband twice
within_quota(g) == \A c \in DOMAIN cur(g).nations :
  /\ Len(adjustments_of(g, c)) <= quota(g, c)
  /\ \A j, k \in DOMAIN adjustments_of(g, c) : j # k /\ adjustments_of(g, c)[j] = adjustments_of(g, c)[k] => adjustments_of(g, c)[j].type = "pass"

\* the user u owns the country of the adjustment order o, the country has
\* something to build or disband, o is one of its valid adjustments and, if
\* it is not a Pass, it is not stored yet
admissible(u, o) ==
  /\ country_owner(players, o.country) = u
  /\ prev(game).nations[o.country].toBuild # 0
  /\ o \in (IF prev(game).nations[o.country].toBuild > 0 THEN get_valid_build_orders(cur(game).nations, o.country) ELSE get_valid_disband_orders(cur(game).nations, o.country))
  /\ o.type = "pass" \/ ~includes(adjustments_of(game, o.country), o)

\* the stored adjustments of the order's country after an accepted
\* submission of o: o is added while the quota is not full, and takes the
\* place of one stored Pass when it is
stored_after(o) ==
  LET before == adjustments_of(game, o.country)
      after == adjustments_of(game', o.country)
  IN IF Len(before) < quota(game, o.country) THEN after = Append(before, o)
     ELSE \E k \in DOMAIN before : before[k].type = "pass" /\ after = Append(drop(before, k), o)

\* C18: during Creating/Disbanding the number of adjustment orders stored
\* for a country never exceeds |toBuild| of that country and no Build or
\* Disband is stored twice. A submission for a country without anything to
\* build or disband, or by a user who does not own the country, is rejected;
\* so is a submission made when the quota is full and no Pass is stored;
\* an admissible submission made when the quota is full and a Pass is stored
\* is accepted and replaces one stored Pass; an accepted submission changes
\* the stored adjustments of its country only, and every rejected submission
\* leaves the stored adjustments, and the game, unchanged.
C18_AdjustmentQuota ==
  [][phase = CreatingDisbanding =>
       /\ within_quota(game) /\ (phase' = CreatingDisbanding => within_quota(game'))
       /\ submitted(AdjustTypes)' =>
            LET u == request'.user
                o == request'.order
                before == adjustments_of(game, o.country)
                full == Len(before) >= quota(game, o.country)
                pass_stored == \E k \in DOMAIN before : before[k].type = "pass"
            IN /\ err' <=> ~admissible(u, o) \/ (full /\ ~pass_stored)
               /\ err' => game_unchanged
               /\ ~err' => /\ stored_after(o)
                           /\ \A c \in DOMAIN cur(game).nations \ {o.country} : adjustments_of(game', c) = adjustments_of(game, c)]_vars

\* the owner of a country whose quota of two is filled by two stored
\* Disbands has just submitted a third valid Disband, which was rejected
C18_Witness ==
  /\ phase = CreatingDisbanding /\ submitted({"disband"}) /\ err
  /\ admissible(request.user, request.order)
  /\ quota(game, request.order.country) = 2
  /\ Len(adjustments_of(game, request.order.country)) = 2
  /\ \A k \in 1..2 : adjustments_of(game, request.order.country)[k].type = "disband"

\* ---------------------------------------------------------------------------
\* Supply centers
\* ---------------------------------------------------------------------------

\* in every state of the history of g no province is a supply center of two
\* countries and none is listed twice by one country
partitioned(g) == \A n \in DOMAIN g.history : \A c \in DOMAIN g.history[n].nations :
  LET listed == g.history[n].nations[c].supplyCenters
  IN /\ \A j, k \in DOMAIN listed : listed[j] = listed[k] => j = k
     /\ \A d \in DOMAIN g.history[n].nations \ {c} : Range(listed) \cap Range(g.history[n].nations[d].supplyCenters) = {}

\* C19: before and after every step no province is listed as supply center
\* of two countries and none is listed twice for one country; a step changes
\* the owner of a supply center only on entry to Creating/Disbanding, only
\* for a center in which a unit stands, and then the country of that unit is
\* its one owner: the center left its previous owner and no other
\* membership changed.
C19_SupplyCenterPartition ==
  [][/\ partitioned(game) /\ partitioned(game')
     /\ \A p \in ProvinceSet : owners_of(game', p) # owners_of(game, p) =>
          /\ phase # CreatingDisbanding /\ phase' = CreatingDisbanding
          /\ p \in get_supply_centers
          /\ owners_of(game', p) = occupiers_of(game', p)
          /\ Cardinality(owners_of(game', p)) = 1]_vars

\* Creating/Disbanding was entered straight from calculate_orders and a
\* country owns a supply center that is a home center of another country,
\* which does not list it any more
C19_Witness ==
  /\ phase = CreatingDisbanding /\ lastOp = "calculate_orders" /\ ~err
  /\ \E c \in DOMAIN cur(game).nations : \E d \in DOMAIN cur(game).nations \ {c} : \E p \in Range(homeSupplyCenters(d)) :
       /\ includes(cur(game).nations[c].supplyCenters, p)
       /\ ~includes(cur(game).nations[d].supplyCenters, p)
       /\ includes(prev(game).nations[d].supplyCenters, p)

\* ---------------------------------------------------------------------------
\* Claiming countries
\* ---------------------------------------------------------------------------

\* every playable country has an owner in the players mapping pl
all_claimed(pl) == \A c \in DOMAIN pl : pl[c] # ""

\* C20: a claim_country call made in Country Claiming leaves the game in
\* Order Writing exactly when, after the claim, every playable country has an
\* owner, and in Country Claiming otherwise; a claim of a country already
\* claimed by another user raises an error and changes nothing; once the
\* phase is not Country Claiming every claim_country call raises an error,
\* no step changes the players mapping and no step returns the phase to
\* Country Claiming.
C20_ClaimCountry ==
  [][/\ phase = CountryClaiming /\ lastOp' = "claim_country" =>
          /\ phase' = (IF all_claimed(players') THEN OrderWriting ELSE CountryClaiming)
          /\ country_owner(players, request'.country) \notin {"", request'.user} => err' /\ game_unchanged
     /\ phase # CountryClaiming =>
          /\ phase' # CountryClaiming
          /\ players' = players
          /\ lastOp' = "claim_country" => err' /\ game_unchanged]_vars

\* the game left Country Claiming with every country claimed, a turn was
\* adjudicated, and a user has just tried to claim a country again and was
\* refused
C20_Witness ==
  /\ phase \in {Retreating, CreatingDisbanding}
  /\ lastOp = "claim_country" /\ err
  /\ request.country \in DOMAIN players /\ request.user \in UserSet
  /\ all_claimed(players)

\* ---------------------------------------------------------------------------
\* One turn
\* ---------------------------------------------------------------------------

\* the call op of this step was accepted
done(op) == lastOp' = op /\ ~err'

\* the entries of the history before the step are, in the same order, the
\* first entries of the history after it
same_entries == /\ Len(history') >= Len(history)
                /\ \A k \in DOMAIN history : history'[k].date = history[k].date /\ history'[k].season = history[k].season

\* C21: calculate_orders in Order Writing appends one state and leaves the
\* phase Retreating iff a unit was dislodged, and otherwise
\* Creating/Disbanding after a Fall turn and Order Writing after a Spring
\* turn; calculate_retreats leaves Creating/Disbanding after a Fall turn and
\* Order Writing after a Spring turn; calculate_adjustments leaves Order
\* Writing; neither of the two appends a state, so that the three in a row
\* end in Order Writing with a history one entry longer. No step but an
\* accepted calculate_orders changes the length of the history, and no step
\* removes or reorders entries.
C21_OneTurn ==
  [][/\ same_entries
     /\ Len(history') = (IF done("calculate_orders") THEN Len(history) + 1 ELSE Len(history))
     /\ phase = OrderWriting /\ done("calculate_orders") =>
          phase' = (IF DOMAIN prev(game').dislodgements # {} THEN Retreating
                    ELSE IF prev(game').season = Fall THEN CreatingDisbanding ELSE OrderWriting)
     /\ done("calculate_retreats") =>
          phase = Retreating /\ phase' = (IF prev(game).season = Fall THEN CreatingDisbanding ELSE OrderWriting)
     /\ done("calculate_adjustments") =>
          phase = CreatingDisbanding /\ prev(game).season = Fall /\ phase' = OrderWriting]_vars

\* a Fall turn went through all three steps: orders were adjudicated and
\* dislodged a unit, retreats and adjustments were processed, and the game
\* is in Order Writing with a history one entry longer than at the start
C21_Witness ==
  /\ phase = OrderWriting /\ lastOp = "calculate_adjustments" /\ ~err
  /\ Len(history) = 2
  /\ prev(game).season = Fall
  /\ DOMAIN prev(game).dislodgements # {}

\* ---------------------------------------------------------------------------
\* Dates and seasons
\* ---------------------------------------------------------------------------

\* state b is the turn after state a: Fall of the same year after Spring,
\* Spring of the next year after Fall
follows(a, b) ==
  \/ a.season = Spring /\ b.season = Fall /\ b.date = a.date
  \/ a.season = Fall /\ b.season = Spring /\ b.date = a.date + 1

\* C22: after every step each state of the history but the first is the
\* turn after the state before it (the opposite season; the same date after
\* a Spring state, the date plus one after a Fall state), and the step left
\* the date and the season of every entry that existed before it as they
\* were.
C22_DatesAndSeasons ==
  [][/\ \A k \in DOMAIN history' : k > 1 => follows(history'[k - 1], history'[k])
     /\ \A k \in DOMAIN history : k <= Len(history') /\ history'[k].date = history[k].date /\ history'[k].season = history[k].season]_vars

\* a Fall state was adjudicated and the Spring state of the next year was
\* appended to the history
C22_Witness ==
  /\ Len(history) = 2 /\ lastOp = "calculate_orders" /\ ~err
  /\ history[1].season = Fall /\ history[2].season = Spring
  /\ history[2].date = StartDate + 1

\* ---------------------------------------------------------------------------
\* Adjudication of accepted orders
\* ---------------------------------------------------------------------------

\* every unit of the state s has an order in the table of its country, and
\* the order carries a result
all_stamped(s) == \A c \in DOMAIN s.nations : \A k \in DOMAIN s.nations[c].units :
  /\ c \in DOMAIN s.orders
  /\ \E j \in DOMAIN s.orders[c] : /\ s.orders[c][j].province = s.nations[c].units[k].province
                                     /\ s.orders[c][j].result \in {success, fail, dislodged}

\* C23 as stated: calculate_orders called in Order Writing on a game whose
\* stored orders were all accepted by submit_order (games with units of
\* neutral, unplayed countries and turns without any submitted order
\* included) raises no error, and afterwards every unit of the adjudicated
\* state has an order whose result is success, fail or dislodged.
C23_Stated ==
  [][phase = OrderWriting /\ lastOp' = "calculate_orders" =>
       ~err' /\ Len(history') = Len(history) + 1 /\ all_stamped([prev(game') EXCEPT !.nations = cur(game).nations])]_vars

\* ---------------------------------------------------------------------------
\* Termination of resolve
\* ---------------------------------------------------------------------------

\* the main loop of calculate_orders on the adjudicated turn, with the
\* variables of the closures as it left them
main_run == resolve_all(adjudication_context([game EXCEPT !.history = <<turn>>], stamped), initial_resolution(Len(stamped)), 1, <<>>)

\* C24: in every adjudication, ended by an error or not, the recursion of resolve ends (no call of
\* resolve(i) started over from the state it had started from, and none
\* started over more often than there are orders), and every backup rule
\* left strictly fewer orders not Resolved than there were when the
\* enclosing resolve(i) began.
C24_ResolveTerminates ==
  frozen => ~main_run.st.overflow /\ ~main_run.st.stalled /\ main_run.st.retries <= Len(stamped)

\* an adjudication in which resolve started over after a backup rule
C24_Witness == adjudicated /\ main_run.st.retries >= 1 /\ ~main_run.st.overflow

----------------------------------------------------------------------------
(* Saving and loading. A JSON object is a function from its keys to its    *)
(* values; JSON.stringify followed by JSON.parse keeps such a value as it  *)
(* is, so the text itself is not modelled. What changes the value is the   *)
(* replacer, which puts order.export() in the place of every Order, the    *)
(* choice of the keys that exist in a state (s.keys), and, on loading, the *)
(* constructor, which makes Orders of the exported objects.                *)

\* the case-specific fields of an order of the given type (section 3 of the
\* specification)
order_fields(type) ==
  CASE type = "move" -> {"dest", "coast", "isConvoy"}
    [] type = "support hold" -> {"supporting"}
    [] type = "support move" -> {"supporting", "from"}
    [] type = "convoy" -> {"start", "end"}
    [] type = "retreat" -> {"dest", "coast"}
    [] type = "build" -> {"country", "unitType", "coast"}
    [] type = "disband" -> {"country"}
    [] type = "pass" -> {"country"}
    [] OTHER -> {}

\* Order.export as it would be if it left out the result
export_without_result(o) == [f \in ({"type", "province"} \cup order_fields(o.type)) \ (IF o.type = "pass" THEN {"province"} ELSE {}) |-> o[f]]

\* Order.export: type, province, the case-specific fields and, for an order
\* that is adjudicated, its result
export(o) == [f \in (({"type", "province"} \cup order_fields(o.type)) \ (IF o.type = "pass" THEN {"province"} ELSE {})) \cup (DOMAIN o \cap {"result"}) |-> o[f]]

\* shared.import_order: the Order made of an exported object by the
\* constructor of its type, with the result the object carries
import_order(j) ==
  LET made == CASE j.type = "hold" -> HoldOrder(j.province)
                [] j.type = "move" -> MoveOrder(j.province, j.dest, j.coast, j.isConvoy)
                [] j.type = "support hold" -> SupportHoldOrder(j.province, j.supporting)
                [] j.type = "support move" -> SupportMoveOrder(j.province, j.supporting, j.from)
                [] j.type = "convoy" -> ConvoyOrder(j.province, j.start, j.end)
                [] j.type = "retreat" -> RetreatOrder(j.province, j.dest, j.coast)
                [] j.type = "build" -> BuildOrder(j.country, j.province, j.unitType, j.coast)
                [] j.type = "disband" -> DisbandOrder(j.country, j.province)
                [] OTHER -> PassOrder(j.country)
  IN IF "result" \in DOMAIN j /\ "result" \in DOMAIN made THEN [made EXCEPT !.result = j.result] ELSE made

\* a table of orders by country with f applied to every order
each_order(table, f(_)) == [c \in DOMAIN table |-> [k \in DOMAIN table[c] |-> f(table[c][k])]]

\* JSON.stringify(state, gamedata_stringify_replacer): the keys the state
\* has, every Order exported
stringify_state(s) ==
  [k \in {"date", "season", "nations"} \cup s.keys |->
     CASE k = "orders" -> each_order(s.orders, export)
       [] k = "retreats" -> each_order(s.retreats, export)
       [] k = "adjustments" -> each_order(s.adjustments, export)
       [] OTHER -> s[k]]

\* save: the object toStore made text (of the keys of toStore the model has
\* phase, players and history)
stringified(g) == [phase |-> g.phase, players |-> g.players, history |-> [n \in DOMAIN g.history |-> stringify_state(g.history[n])]]

\* the state the constructor makes of a parsed state
parsed_state(j) ==
  LET has(k) == k \in DOMAIN j
  IN [date |-> j.date, season |-> j.season, nations |-> j.nations,
      keys |-> (DOMAIN j) \ {"date", "season", "nations"},
      orders |-> IF has("orders") THEN each_order(j.orders, import_order) ELSE <<>>,
      retreats |-> IF has("retreats") THEN each_order(j.retreats, import_order) ELSE <<>>,
      adjustments |-> IF has("adjustments") THEN each_order(j.adjustments, import_order) ELSE <<>>,
      dislodgements |-> IF has("dislodgements") THEN j.dislodgements ELSE <<>>,
      contested |-> IF has("contested") THEN j.contested ELSE <<>>]

\* gamedata_from_id: JSON.parse and new ServerGameData(json)
loaded(json) == [phase |-> json.phase, players |-> json.players, history |-> [n \in DOMAIN json.history |-> parsed_state(json.history[n])]]

----------------------------------------------------------------------------
(* The REST handlers of server.js. The variables phase, players and        *)
(* history are here the row of the game in diplomacy_games; handlers[h]    *)
(* is one request being answered: its position (pc), its parameters, the   *)
(* ServerGameData object it loaded (g) and the text save() made of it      *)
(* (json). Every await of a handler lets the other handler run.            *)

\* the requests: POST claim-country with a country, POST submit-orders with a
\* list of orders
ClaimRequest(c) == [kind |-> "claim-country", country |-> c, body |-> <<>>]

SubmitRequest(body) == [kind |-> "submit-orders", country |-> "", body |-> body]

ServerRequests ==
  {ClaimRequest(c) : c \in CountrySet} \cup
  {SubmitRequest(b) : b \in {<<HoldOrder("Par")>>, <<HoldOrder("Pic"), MoveOrder("Par", "Bur", "", FALSE)>>, <<HoldOrder("Bre")>>}}

\* the games in the table when the two requests arrive: a new game, and the
\* same game with both countries claimed
ServerGames ==
  LET created == new_game(nations_with(<<A("Par"), A("Pic")>>, <<F("Bre")>>), Spring)
  IN {created, claim_country(claim_country(created, "alice", "England").g, "bob", "France").g}

NoGame == [phase |-> "", players |-> <<>>, history |-> <<>>]

\* the loop as it would be if it caught the error of a rejected order and
\* went on with the next
RECURSIVE submit_orders_skipping_rejected(_, _, _, _)
submit_orders_skipping_rejected(g, username, body, k) ==
  IF k > Len(body) THEN Ok(g)
  ELSE Bind(submit_order(g, username, body[k]), LAMBDA r : submit_orders_skipping_rejected(IF r.err THEN g ELSE r.g, username, body, k + 1))

\* the loop of the submit-orders handler over req.body, from order k on
RECURSIVE submit_orders(_, _, _, _)
submit_orders(g, username, body, k) ==
  IF k > Len(body) THEN Ok(g)
  ELSE Bind(submit_order(g, username, body[k]), LAMBDA r : IF r.err THEN r ELSE submit_orders(r.g, username, body, k + 1))

\* the call a handler makes on the game it loaded
handle(g, username, req) == IF req.kind = "claim-country" THEN claim_country(g, username, req.country) ELSE submit_orders(g, username, req.body, 1)

ServerInit ==
  /\ \E g \in ServerGames : phase = g.phase /\ players = g.players /\ history = g.history
  /\ \E r1, r2 \in ServerRequests :
       handlers = [h \in 1..2 |-> [pc |-> "authenticated", user |-> Users[h], req |-> IF h = 1 THEN r1 ELSE r2, g |-> NoGame, json |-> NoGame]]
  /\ err = FALSE
  /\ lastOp = "new_game"
  /\ nSpawn = 0
  /\ request = NoRequest
  /\ nRejected = 0

Attended(h, op) == lastOp' = op /\ UNCHANGED <<err, nSpawn, request, nRejected>>

\* generic_game_auth_func: `await utils.gamedata_from_id(req.params.id)`
\* reads the row and builds the object
LoadGame == \E h \in DOMAIN handlers :
  /\ handlers[h].pc = "authenticated"
  /\ handlers' = [handlers EXCEPT ![h].pc = "loaded", ![h].g = game]
  /\ UNCHANGED <<phase, players, history>>
  /\ Attended(h, "gamedata_from_id")

\* the handler after the await: the call on the loaded object, which throws
\* (answer 500) or is followed by save(), which makes the text of the
\* object and awaits game_exists
HandleRequest == \E h \in DOMAIN handlers :
  /\ handlers[h].pc = "loaded"
  /\ LET r == handle(handlers[h].g, handlers[h].user, handlers[h].req)
     IN handlers' = [handlers EXCEPT ![h].pc = IF r.err THEN "failed" ELSE "saving", ![h].g = r.g, ![h].json = IF r.err THEN NoGame ELSE stringified(r.g)]
  /\ UNCHANGED <<phase, players, history>>
  /\ Attended(h, handlers[h].req.kind)

\* save after its await: the UPDATE of the row with the text made before
\* (the row is kept as the game that gamedata_from_id constructs of it)
SaveGame == \E h \in DOMAIN handlers :
  /\ handlers[h].pc = "saving"
  /\ phase' = loaded(handlers[h].json).phase
  /\ players' = loaded(handlers[h].json).players
  /\ history' = loaded(handlers[h].json).history
  /\ handlers' = [handlers EXCEPT ![h].pc = "saved"]
  /\ Attended(h, "save")

ServerNext == LoadGame \/ HandleRequest \/ SaveGame

ServerSpec == ServerInit /\ [][ServerNext]_vars

\* the row holds what the request of handler h did: the country belongs to
\* its user, or each order of its list is the order stored for its unit
effect_kept(h) ==
  IF handlers[h].req.kind = "claim-country" THEN country_owner(players, handlers[h].req.country) = handlers[h].user
  ELSE \A k \in DOMAIN handlers[h].req.body : \E x \in stored_at(game, handlers[h].req.body[k].province) : x.order = handlers[h].req.body[k]

\* C25 as stated: the requests of two users on one game do not touch the
\* game concurrently, so that, when both have been answered and saved, the
\* row of the game holds the effect of every request that was accepted.
C25_Stated ==
  (\A h \in DOMAIN handlers : handlers[h].pc \in {"saved", "failed"}) =>
    \A h \in DOMAIN handlers : handlers[h].pc = "saved" => effect_kept(h)

----------------------------------------------------------------------------
(* Round trip of save and load *)

----------------------------------------------------------------------------
(* Two runs of the adjudicator. handlers[h] is here one run: the game it   *)
(* was given (g) and whether calculate_orders has been applied to it (pc). *)
(* Both runs are given the game of the row, with its stored orders in the  *)
(* order of their insertion.                                               *)

\* the positions the two runs adjudicate: two fleets against an army and the
\* fleet that can convoy it, and the four armies of S3
RunPositions ==
  { nations_with(<<F("Lon"), F("Pic")>>, <<A("Bre"), F("Eng")>>),
    S3Position }

RunsInit ==
  /\ \E nations \in RunPositions : \E t \in OrderTables(nations) :
       /\ phase = OrderWriting
       /\ players = [c \in played(nations) |-> IF c = played_list(nations)[1] THEN "alice" ELSE "bob"]
       /\ history = <<[State(StartDate, Spring, nations) EXCEPT !.orders = t, !.keys = {"orders"}]>>
  /\ handlers = [h \in 1..2 |-> [pc |-> "ready", g |-> game]]
  /\ err = FALSE
  /\ lastOp = "submit_order"
  /\ nSpawn = 0
  /\ request = NoRequest
  /\ nRejected = 0

\* the adjudicate instruction of tests.js on the game of run h
Adjudicate == \E h \in DOMAIN handlers :
  /\ handlers[h].pc = "ready"
  /\ LET r == calculate_orders(handlers[h].g)
     IN handlers' = [handlers EXCEPT ![h].pc = IF r.err THEN "failed" ELSE "adjudicated", ![h].g = r.g]
  /\ lastOp' = "calculate_orders"
  /\ UNCHANGED <<phase, players, history, err, nSpawn, request, nRejected>>

RunsSpec == RunsInit /\ [][Adjudicate]_vars

----------------------------------------------------------------------------
(* Convoys over two seas. In one position England has an army in London   *)
(* and fleets in the English Channel and the North Sea, either of which    *)
(* can carry the army to Picardy, and France has fleets in Brest and       *)
(* Picardy, which together can dislodge the fleet in the Channel. In the   *)
(* other the fleet in Picardy is English, so that the fleet in the Channel *)
(* can be attacked by a unit of its own team and by a French one.          *)

ConvoyPositions ==
  { nations_with(<<A("Lon"), F("Eng"), F("Nth")>>, <<F("Bre"), F("Pic")>>),
    nations_with(<<A("Lon"), F("Eng"), F("Pic")>>, <<F("Bre")>>) }

\* the order tables of a position: one valid order for each unit, stored in
\* the order of the units
ConvoyTables(nations) ==
  LET cs == played_list(nations)
      all == {[c \in played(nations) |-> IF c = cs[1] THEN p[1] ELSE p[2]] :
                p \in one_each(nations, nations[cs[1]].units) \X one_each(nations, nations[cs[2]].units)}
  IN {t \in all : matched(nations, flat([k \in DOMAIN cs |-> t[cs[k]]]))}

ConvoyInit ==
  /\ \E nations \in ConvoyPositions : \E t \in ConvoyTables(nations) :
       /\ phase = OrderWriting
       /\ players = [c \in played(nations) |-> IF c = played_list(nations)[1] THEN "alice" ELSE "bob"]
       /\ history = <<[State(StartDate, Spring, nations) EXCEPT !.orders = t, !.keys = {"orders"}]>>
  /\ err = FALSE
  /\ lastOp = "submit_order"
  /\ nSpawn = 0
  /\ request = NoRequest
  /\ nRejected = 0
  /\ handlers = <<>>

ConvoySpec == ConvoyInit /\ [][CalculateOrders]_vars

\* the Convoy orders of the turn for the move m
convoys_for(m) == {o \in Range(stamped) : o.type = "convoy" /\ o.start = m.province /\ o.end = m.dest}

\* the attack strength of o is greater than what it has to overcome, the
\* move m left aside
overcomes_but(o, m) ==
  /\ head_to_head(o) => \A x \in move_of(o.dest) : final_attack_strength(o) > final_defend_strength(x)
  /\ ~head_to_head(o) => final_attack_strength(o) > final_hold_strength(o.dest)
  /\ \A x \in Range(stamped) : x.type = "move" /\ x.dest = o.dest /\ x.province # o.province /\ x.province # m.province => final_attack_strength(o) > final_prevent_strength(x)

----------------------------------------------------------------------------
(* Convoy orders                                                           *)

\* the Convoy orders of the turn
convoys == {c \in Range(stamped) : c.type = "convoy"}

\* the moves of the turn against the unit at p by units of another team
attacks_on(p) == {m \in Range(stamped) : m.type = "move" /\ m.dest = p /\ team(m.province) # team(p)}

----------------------------------------------------------------------------
(* Units of one team                                                       *)

\* the unit at p stays: it has no Move order that is stamped success
stays(p) == unit_at(p) /\ ~\E o \in move_of(p) : ok(o)

\* the moves of the turn that end on p
entered(p) == {m \in Range(stamped) : m.type = "move" /\ m.dest = p /\ ok(m)}

\* C30: no unit is dislodged by a unit of its own team. A Move against a
\* unit of the mover's team that stays fails, whatever support it has; a
\* Move that succeeds against a unit of another team that stays has more
\* strength than the unit's hold strength counting only the support given by
\* units that are not of that unit's team; and every dislodgement record is
\* of a unit whose province was entered by a unit of another team only.
C30_NoSelfDislodgement ==
  adjudicated =>
    /\ \A m \in Range(stamped) : m.type = "move" /\ stays(m.dest) /\ team(m.province) = team(m.dest) => ~ok(m)
    /\ \A m \in Range(stamped) : m.type = "move" /\ stays(m.dest) /\ ok(m) => 1 + supports_of(m, FALSE) > final_hold_strength(m.dest)
    /\ \A p \in DOMAIN turn.dislodgements :
         /\ entered(p) # {}
         /\ \A m \in entered(p) : team(m.province) # team(p)
         /\ turn.dislodgements[p].country = get_unit_owner_id(turn.nations, p)

\* a supported Move against a unit of the mover's own team that holds
\* without support has failed
C30_Witness ==
  /\ adjudicated
  /\ \E m \in Range(stamped) :
       /\ m.type = "move" /\ stays(m.dest) /\ team(m.province) = team(m.dest)
       /\ supports_of(m, TRUE) >= 1
       /\ final_hold_strength(m.dest) = 1
       /\ m.result = fail

----------------------------------------------------------------------------
(* Head-to-head battles                                                    *)

\* the pairs of moves of the turn into each other's provinces
opposed == {x \in moves \X moves : x[1].dest = x[2].province /\ x[2].dest = x[1].province}

\* C31: two units ordered into each other's provinces without convoy never
\* both succeed; one of them succeeds only if its attack strength is greater
\* than the defend strength of the other (1 plus the successful supports of
\* the other's move, teams ignored), so that with equal strengths both fail
\* (stamped fail, or dislodged when a third unit dislodges one of them);
\* when one of the two moves is convoyed, its success is not decided against
\* the defend strength of the other.
C31_HeadToHead ==
  adjudicated => \A x \in opposed :
    /\ ~x[1].isConvoy /\ ~x[2].isConvoy =>
         /\ ~(ok(x[1]) /\ ok(x[2]))
         /\ ok(x[1]) => final_attack_strength(x[1]) > final_defend_strength(x[2])
         /\ final_attack_strength(x[1]) <= final_defend_strength(x[2]) /\ final_attack_strength(x[2]) <= final_defend_strength(x[1]) => x[1].result \in {fail, dislodged} /\ x[2].result \in {fail, dislodged}
    /\ x[1].isConvoy \/ x[2].isConvoy =>
         (ok(x[1]) <=> (has_route(x[1]) /\ overcomes(x[1]))) /\ ~head_to_head(x[1])

\* one of two units ordered into each other's provinces got through with a
\* support against the other's defend strength of 1, and the other was
\* dislodged
C31_Witness ==
  /\ adjudicated
  /\ \E x \in opposed :
       /\ ~x[1].isConvoy /\ ~x[2].isConvoy
       /\ ok(x[1]) /\ final_attack_strength(x[1]) = 2 /\ final_defend_strength(x[2]) = 1
       /\ x[2].result = dislodged

----------------------------------------------------------------------------
(* Dislodgements                                                           *)

\* the order of the unit at p, as stamped
order_at(p) == {o \in Range(stamped) : o.province = p}

\* C32: after calculate_orders a unit has a dislodgement record iff a Move
\* stamped success entered its province and its own order is not a Move
\* stamped success; then its order is stamped dislodged, its country has no
\* unit on the province in the new state, the record holds the unit, its
\* country and the attacker's province (empty for a convoyed attacker), and
\* the country has a retreats entry.
C32_Dislodgements ==
  adjudicated =>
    /\ \A p \in DOMAIN turn.dislodgements : unit_at(p)
    /\ \A p \in ProvinceSet : unit_at(p) =>
         /\ p \in DOMAIN turn.dislodgements <=> (entered(p) # {} /\ ~\E o \in move_of(p) : ok(o))
         /\ p \notin DOMAIN turn.dislodgements => \A o \in order_at(p) : o.result # dislodged
         /\ p \in DOMAIN turn.dislodgements =>
              LET d == turn.dislodgements[p]
              IN /\ \A o \in order_at(p) : o.result = dislodged
                 /\ d.unit = get_unit(turn.nations, p)
                 /\ d.country = get_unit_owner_id(turn.nations, p)
                 /\ \A k \in DOMAIN cur(game).nations[d.country].units : cur(game).nations[d.country].units[k].province # p
                 /\ \A m \in entered(p) : d.from = IF m.isConvoy THEN "" ELSE m.province
                 /\ d.country \in DOMAIN turn.retreats
                 /\ "dislodgements" \in turn.keys /\ "retreats" \in turn.keys

\* a fleet was dislodged by a convoyed army, and its record names no province
\* of origin
C32_Witness ==
  /\ adjudicated
  /\ \E p \in DOMAIN turn.dislodgements :
       /\ turn.dislodgements[p].from = ""
       /\ \E m \in entered(p) : m.isConvoy
       /\ \E k \in standing(p) : all_units(cur(game).nations)[k].type = Army

----------------------------------------------------------------------------
(* The backup rules                                                        *)

\* C33: a paradoxical cycle is taken for a convoy paradox iff its slice of
\* the dependency stack holds a Convoy order and a Move into the province of
\* the convoying fleet; any other paradoxical cycle is taken for a circular
\* movement.
C33_BackupRuleType == frozen => ~main_run.st.misfiled

\* an adjudication with a cycle taken for a convoy paradox whose slice holds
\* the Convoy order and the attack on its fleet but not the convoyed Move
C33_Witness ==
  /\ adjudicated /\ convoy \in main_run.st.applied
  /\ ~main_run.st.misfiled /\ main_run.st.unconvoyed

\* C33 as stated: a paradoxical cycle is taken for a convoy paradox iff its
\* slice holds a convoyed Move and a Convoy order for it.
C33_Stated == frozen => ~main_run.st.unconvoyed

\* C34: a backup rule fails every Convoy order and convoyed Move in the slice
\* of a convoy paradox, lets every Move in the slice of a circular movement
\* succeed, makes every other member Unresolved, cuts the stack to
\* old_dep_size and leaves the entries below and the orders outside the slice
\* as they were.
C34_BackupRuleFrame == frozen => ~main_run.st.unframed

\* an adjudication in which the rule of the circular movement was applied
\* to a cycle and settled it so
C34_Witness == adjudicated /\ circle \in main_run.st.applied /\ ~main_run.st.unframed

----------------------------------------------------------------------------
(* The dependency stack between calls                                      *)

\* C35: a call of resolve that found its order Unresolved and returns with
\* it Resolved leaves the dependency stack at the length old_dep_size it
\* had when the call began, and every order it pushed Unresolved.
C35_Stated == frozen => ~main_run.st.leftover

----------------------------------------------------------------------------
(* The main loop                                                           *)

\* C36: when the main loop has called resolve(i), order i is Resolved and
\* the result the loop read is the resolution stored for it at the end; when
\* the loop ends no order is Guessing or Unresolved.
C36_Stated ==
  (frozen /\ ~main_run.st.overflow) =>
    LET run == main_run
    IN /\ run.st.guessed = {}
       /\ \A n \in 1..Len(run.v) : run.st.rs[n] = Resolved /\ run.v[n] = run.st.res[n]

----------------------------------------------------------------------------
(* The index order of the orders. Two runs are given the same position    *)
(* and the same orders; the first run holds each country's orders in the   *)
(* order of its units, the second in any order of insertion.               *)

PermPositions == RunPositions

\* the tables that hold the orders of table t, each country's in any order
permuted(nations, t) ==
  LET cs == played_list(nations)
  IN {[c \in DOMAIN t |-> IF c = cs[1] THEN p[1] ELSE p[2]] : p \in insertions(t[cs[1]]) \X insertions(t[cs[2]])}

PermInit ==
  /\ \E nations \in PermPositions : \E t \in ConvoyTables(nations) : \E u \in permuted(nations, t) :
       /\ phase = OrderWriting
       /\ players = [c \in played(nations) |-> IF c = played_list(nations)[1] THEN "alice" ELSE "bob"]
       /\ history = <<[State(StartDate, Spring, nations) EXCEPT !.orders = t, !.keys = {"orders"}]>>
       /\ handlers = <<[pc |-> "ready", g |-> game], [pc |-> "ready", g |-> [game EXCEPT !.history[1].orders = u]]>>
  /\ err = FALSE
  /\ lastOp = "submit_order"
  /\ nSpawn = 0
  /\ request = NoRequest
  /\ nRejected = 0

PermSpec == PermInit /\ [][Adjudicate]_vars

\* both runs are over
both_over == \A h \in DOMAIN handlers : handlers[h].pc # "ready"

\* the runs gave every order the same result and left the same units, the
\* same dislodgements and the same retreats to write
same_outcome ==
  /\ handlers[1].pc = handlers[2].pc
  /\ handlers[1].g.phase = handlers[2].g.phase
  /\ \A c \in DOMAIN prev(handlers[1].g).orders : Range(prev(handlers[1].g).orders[c]) = Range(prev(handlers[2].g).orders[c])
  /\ \A c \in CountrySet : Range(cur(handlers[1].g).nations[c].units) = Range(cur(handlers[2].g).nations[c].units)
  /\ prev(handlers[1].g).dislodgements = prev(handlers[2].g).dislodgements
  /\ prev(handlers[1].g).retreats = prev(handlers[2].g).retreats

\* C37: for every permutation of the same orders on the same position,
\* every order gets the same result, the new positions and the
\* dislodgements are the same and the contested list holds the same
\* provinces.
C37_IndexOrder ==
  both_over => same_outcome /\ Range(prev(handlers[1].g).contested) = Range(prev(handlers[2].g).contested)

\* both runs have adjudicated the same orders, held in different orders,
\* with a unit dislodged and two provinces contested
C37_Witness ==
  /\ both_over /\ handlers[1].pc = "adjudicated"
  /\ prev(handlers[1].g).orders # prev(handlers[2].g).orders
  /\ same_outcome
  /\ DOMAIN prev(handlers[1].g).dislodgements # {}
  /\ Len(prev(handlers[1].g).contested) > 1

\* C37 as stated: the contested lists of the two runs are the same list.
C37_Stated ==
  both_over => same_outcome /\ prev(handlers[1].g).contested = prev(handlers[2].g).contested

----------------------------------------------------------------------------
(* The units of a game                                                     *)

\* how many units of the type the country has among the units
units_of_type(units, type) == Len(SelectSeq(units, LAMBDA u : u.type = type))

\* how many dislodgement records of the state hold a unit of the type for
\* the country
dislodged_of_type(state, c, type) ==
  Cardinality({p \in DOMAIN state.dislodgements : state.dislodgements[p].country = c /\ state.dislodgements[p].unit.type = type})

\* the units of the first n entries of the history are in h2 as in h1
units_kept(h1, h2, n) == \A k \in 1..n : \A c \in CountrySet : h2[k].nations[c].units = h1[k].nations[c].units

\* a step of calculate_orders: the units of the new state and the
\* dislodgement records are together the units before
conserved_by_orders ==
  (phase = OrderWriting /\ lastOp' = "calculate_orders" /\ ~err') =>
    /\ Len(history') = Len(history) + 1
    /\ units_kept(history, history', Len(history))
    /\ \A c \in CountrySet : \A type \in {"Army", "Fleet"} :
         units_of_type(cur(game).nations[c].units, type)
           = units_of_type(cur(game').nations[c].units, type) + dislodged_of_type(prev(game'), c, type)
    /\ \A p \in DOMAIN prev(game').dislodgements :
         LET d == prev(game').dislodgements[p]
         IN /\ d.unit \in Range(cur(game).nations[d.country].units)
            /\ d.unit.province = p
            /\ ~\E u \in Range(cur(game').nations[d.country].units) : u.province = p

\* a step of calculate_retreats: one unit more for each successful retreat
conserved_by_retreats ==
  (phase = Retreating /\ lastOp' = "calculate_retreats" /\ ~err') =>
    /\ Len(history') = Len(history)
    /\ units_kept(history, history', Len(history) - 1)
    /\ \A c \in CountrySet :
         LET old == cur(game).nations[c].units
             new == cur(game').nations[c].units
             retreated == {r \in retreats_of(game') : r.result = success /\ prev(game).dislodgements[r.province].country = c}
         IN /\ Len(new) = Len(old) + Cardinality(retreated)
            /\ SubSeq(new, 1, Len(old)) = old
            /\ \A r \in retreated : \E k \in (Len(old) + 1)..Len(new) :
                 new[k].province = r.dest /\ new[k].type = prev(game).dislodgements[r.province].unit.type

\* C38: calculate_orders neither creates nor loses units: the units of the
\* new state and the dislodgement records are together the units before,
\* each with its country and type; calculate_retreats adds one unit for each
\* successful retreat to the country of the dislodged unit and changes no
\* other unit; neither changes the units of an earlier history entry.
C38_UnitsConserved == [][conserved_by_orders /\ conserved_by_retreats]_vars

\* a turn with its retreats is over: a unit was dislodged by calculate_orders
\* and put back on the board by calculate_retreats
C38_Witness ==
  /\ lastOp = "calculate_retreats" /\ ~err
  /\ \E r \in retreats_of(game) : r.result = success /\ has_unit(cur(game).nations, r.dest)
  /\ Len(all_units(cur(game).nations)) = Len(all_units(history[1].nations))

----------------------------------------------------------------------------
(* Lists of orders. The game is in Order Writing; each user posts one list *)
(* to submit-orders: an order for a unit of England, orders for both of    *)
(* its units, or an order for a unit of England and one for the French     *)
(* fleet, in either order.                                                 *)

BatchRequests ==
  {SubmitRequest(b) : b \in {<<HoldOrder("Par")>>,
                             <<HoldOrder("Pic"), MoveOrder("Par", "Bur", "", FALSE)>>,
                             <<MoveOrder("Par", "Bur", "", FALSE), HoldOrder("Bre")>>,
                             <<HoldOrder("Bre"), HoldOrder("Par")>>}}

BatchInit ==
  /\ \E g \in {x \in ServerGames : x.phase = OrderWriting} : phase = g.phase /\ players = g.players /\ history = g.history
  /\ \E r1, r2 \in BatchRequests :
       handlers = [h \in 1..2 |-> [pc |-> "authenticated", user |-> Users[h], req |-> IF h = 1 THEN r1 ELSE r2, g |-> NoGame, json |-> NoGame]]
  /\ err = FALSE
  /\ lastOp = "new_game"
  /\ nSpawn = 0
  /\ request = NoRequest
  /\ nRejected = 0

BatchSpec == BatchInit /\ [][ServerNext]_vars

\* order k of the list of handler h is rejected when it is submitted to the
\* game the handler loaded, after the orders before it
RECURSIVE rejected_in(_, _, _)
rejected_in(h, g, k) ==
  /\ k <= Len(handlers[h].req.body)
  /\ LET r == submit_order(g, handlers[h].user, handlers[h].req.body[k])
     IN r.err \/ rejected_in(h, r.g, k + 1)

\* a step of handler h on a list of orders
all_or_nothing(h) ==
  /\ (handlers[h].pc = "loaded" /\ handlers'[h].pc # "loaded") =>
        /\ game' = game
        /\ handlers'[h].pc = (IF rejected_in(h, handlers[h].g, 1) THEN "failed" ELSE "saving")
  /\ handlers[h].pc = "failed" => handlers'[h].pc = "failed"
  /\ (handlers[h].pc = "saving" /\ handlers'[h].pc = "saved") =>
        \A k \in DOMAIN handlers[h].req.body : \E x \in stored_at(game', handlers[h].req.body[k].province) :
          x.order = handlers[h].req.body[k]

\* C39: a submit-orders request is all or nothing for the stored game: if
\* an order of the list is rejected the handler never saves, and the step
\* that rejected it leaves the stored game as it was; if all are accepted
\* the one save stores them all.
C39_AllOrNothing == [][\A h \in DOMAIN handlers : all_or_nothing(h)]_vars

\* a request failed on its second order: the first is stored in the object
\* of the handler and not in the stored game, which no request has changed
C39_Witness ==
  \E h \in DOMAIN handlers :
    /\ handlers[h].pc = "failed"
    /\ Len(handlers[h].req.body) = 2
    /\ \E x \in stored_at(handlers[h].g, handlers[h].req.body[1].province) : x.order = handlers[h].req.body[1]
    /\ stored_at(game, handlers[h].req.body[1].province) = {}
    /\ \A j \in DOMAIN handlers : handlers[j].pc # "saved"

----------------------------------------------------------------------------
(* Spawning a unit                                                         *)

\* C40 as stated: a call of spawn_unit that raises an error leaves the units
\* of the game as they were, also when it was told to replace the unit on
\* the province; a call that raises none leaves them as they were (the
\* province was occupied) or gives one unit more to one country.
C40_Stated ==
  [][lastOp' = "spawn_unit" =>
       IF err' THEN cur(game').nations = cur(game).nations
       ELSE \/ cur(game').nations = cur(game).nations
            \/ \E c \in DOMAIN players : \E u \in Range(cur(game').nations[c].units) :
                 /\ cur(game').nations[c].units = Append(SelectSeq(cur(game).nations[c].units, LAMBDA x : x.province # u.province), u)
                 /\ \A d \in CountrySet \ {c} : cur(game').nations[d].units = SelectSeq(cur(game).nations[d].units, LAMBDA x : x.province # u.province)]_vars

====
